---- MODULE Spec2Model ----
(***************************************************************************)
(* Model of the scene decoder (parseGaussianSplatPly), the scene loader    *)
(* (GaussianSplatMesh.loadGaussianSplat) and the camera navigators of      *)
(* frontend/src/components/GaussianSplatViewer.tsx and its orbit variant.  *)
(*                                                                         *)
(* Numbers.  A JavaScript number is a record [k, v]: k = "fin" with v the  *)
(* value in thousandths (fixed point, SCALE = 1000), k = "nan", or         *)
(* k = "inf" with v = 1 / -1.  Finite magnitudes saturate at BIG.          *)
(*                                                                         *)
(* Buffers.  A scene file is a header, a sequence of lines (each a         *)
(* sequence of blank-separated words plus a count of trailing blanks and   *)
(* a flag telling whether the line is terminated by byte 0x0A), followed   *)
(* by a payload, a sequence of bytes 0..255.                               *)
(***************************************************************************)
EXTENDS Integers, Sequences, FiniteSets, TLC

\* ------------------------------------------------------------------ bounds

\* largest number of whole records placed in a payload
MaxRecs == 2
\* largest number of movement ticks, key events and look events of a navigator run
MaxTicks == 3

\* ----------------------------------------------------------------- numbers

\* fixed-point resolution (thousandths) and the saturation magnitude (1000.0)
SCALE == 10 * 100
BIG == SCALE * SCALE

Fin(v) == [k |-> "fin", v |-> v]
NaN == [k |-> "nan", v |-> 0]
PosInf == [k |-> "inf", v |-> 1]
NegInf == [k |-> "inf", v |-> -1]

Abs(n) == IF n < 0 THEN -n ELSE n
Sat(n) == IF n > BIG THEN BIG ELSE IF n < -BIG THEN -BIG ELSE n

\* Number.isFinite
NumberIsFinite(a) == a.k = "fin"

\* a < b on JavaScript numbers (false when either is NaN)
Lt(a, b) ==
  IF a.k = "nan" \/ b.k = "nan" THEN FALSE
  ELSE IF a.k = "inf" THEN a.v = -1 /\ ~(b.k = "inf" /\ b.v = -1)
  ELSE IF b.k = "inf" THEN b.v = 1
  ELSE a.v < b.v

\* Math.min, Math.max: NaN if either argument is NaN
MathMin(a, b) == IF a.k = "nan" \/ b.k = "nan" THEN NaN ELSE IF Lt(b, a) THEN b ELSE a
MathMax(a, b) == IF a.k = "nan" \/ b.k = "nan" THEN NaN ELSE IF Lt(a, b) THEN b ELSE a

\* c * a for a finite constant c given in thousandths
Scale(c, a) ==
  IF a.k = "nan" THEN NaN
  ELSE IF a.k = "inf" THEN (IF c = 0 THEN NaN ELSE IF c > 0 THEN a ELSE [k |-> "inf", v |-> -a.v])
  ELSE LET m == Abs(a.v)
           p == c * (m \div SCALE) + (c * (m % SCALE)) \div SCALE
       IN Fin(Sat(IF a.v < 0 THEN -p ELSE p))

\* a + b
Plus(a, b) ==
  IF a.k = "nan" \/ b.k = "nan" THEN NaN
  ELSE IF a.k = "inf" /\ b.k = "inf" THEN (IF a.v = b.v THEN a ELSE NaN)
  ELSE IF a.k = "inf" THEN a
  ELSE IF b.k = "inf" THEN b
  ELSE Fin(Sat(a.v + b.v))

\* a / d for a positive integer constant d
DivBy(a, d) ==
  IF a.k # "fin" THEN a
  ELSE LET q == Abs(a.v) \div d IN Fin(IF a.v < 0 THEN -q ELSE q)

\* -a
Neg(a) == IF a.k = "nan" THEN NaN ELSE [k |-> a.k, v |-> -a.v]

\* e^n in thousandths for the integers n = -7 .. 7 (index n + 8)
ExpTable ==
  << 1, 2, 7, 18, 50, 135, 368, 1000, 2718, 7389, 20086, 54598, 148413, 403429, 1096633 >>

\* Math.exp: the table at integers, linear in between, 0 below -7, saturated above 7
MathExp(a) ==
  IF a.k = "nan" THEN NaN
  ELSE IF a.k = "inf" THEN (IF a.v = 1 THEN PosInf ELSE Fin(0))
  ELSE IF a.v < -7 * SCALE THEN Fin(0)
  ELSE IF a.v >= 7 * SCALE THEN Fin(BIG)
  ELSE LET n == a.v \div SCALE
           f == a.v % SCALE
           lo == ExpTable[n + 8]
           hi == ExpTable[n + 9]
       IN Fin(Sat(lo + ((hi - lo) \div SCALE) * f + (((hi - lo) % SCALE) * f) \div SCALE))

\* 1 / a
Recip(a) ==
  IF a.k = "nan" THEN NaN
  ELSE IF a.k = "inf" THEN Fin(0)
  ELSE IF a.v = 0 THEN PosInf
  ELSE LET q == (SCALE * SCALE) \div Abs(a.v) IN Fin(IF a.v < 0 THEN -q ELSE q)

Min2(a, b) == IF a < b THEN a ELSE b

RECURSIVE Pow2(_)
Pow2(n) == IF n <= 0 THEN 1 ELSE 2 * Pow2(n - 1)

\* ------------------------------------------------------------ float32 bytes

\* The number held by four bytes given most significant byte first (IEEE 754
\* binary32).  The significand is taken to its top 8 bits, the value to
\* thousandths; a denormal rounds to 0 and a magnitude above BIG saturates.
F32Value(b) ==
  LET sign == b[1] \div 128
      e    == (b[1] % 128) * 2 + b[2] \div 128
      mant == (b[2] % 128) * 65536 + b[3] * 256 + b[4]
      m8   == 128 + (b[2] % 128)
      mag  == IF e >= 134
              THEN (IF e - 134 > 12 THEN BIG ELSE Sat(m8 * SCALE * Pow2(e - 134)))
              ELSE (IF 134 - e > 20 THEN 0 ELSE (m8 * SCALE) \div Pow2(134 - e))
  IN IF e = 255 THEN (IF mant = 0 THEN [k |-> "inf", v |-> IF sign = 1 THEN -1 ELSE 1] ELSE NaN)
     ELSE IF e = 0 THEN Fin(0)
     ELSE Fin(IF sign = 1 THEN -mag ELSE mag)

Reverse4(b) == << b[4], b[3], b[2], b[1] >>

\* DataView.getFloat32(off, littleEndian) on the byte sequence data (off is
\* 0-based); the caller checks the range
getFloat32(data, off, littleEndian) ==
  LET raw == SubSeq(data, off + 1, off + 4)
  IN F32Value(IF littleEndian THEN Reverse4(raw) ELSE raw)

\* whether DataView.getFloat32(off) throws a RangeError
OutOfRange(data, off) == off < 0 \/ off + 4 > Len(data)

\* ------------------------------------------------------------------ buffers

\* the scanned prefix of the header search
SCAN_LIMIT == 10000

RECURSIVE WordsLen(_)
WordsLen(ws) == IF ws = << >> THEN 0 ELSE Len(Head(ws)) + WordsLen(Tail(ws))

\* bytes of a line's text: its words, one blank between two words, its
\* trailing blanks; the terminating 0x0A is not counted
LineLen(l) ==
  WordsLen(l.words) + (IF Len(l.words) > 1 THEN Len(l.words) - 1 ELSE 0) + l.pad

RECURSIVE HeaderLen(_)
HeaderLen(h) ==
  IF h = << >> THEN 0 ELSE LineLen(Head(h)) + (IF Head(h).nl THEN 1 ELSE 0) + HeaderLen(Tail(h))

\* uint8.length
BufLen(buf) == HeaderLen(buf.header) + Len(buf.payload)

\* bytes String.prototype.trim removes
Whitespace == {9, 10, 11, 12, 13, 32}

\* the text of a line holding bytes that are no header text
Garbage == << "?" >>

\* the scan loop without its cap
ScanBound_NoCap(buf) == BufLen(buf)

\* Math.min(uint8.length, 10000), the bound of the scan loop
ScanBound(buf) == Min2(BufLen(buf), SCAN_LIMIT)

\* The tail of the scan loop once the header lines are used up: byte p of the
\* payload sits at index base + p - 1; cur is the text since lineStart.
RECURSIVE ScanPayload(_, _, _, _, _)
ScanPayload(buf, p, base, acc, cur) ==
  LET i == base + p - 1
  IN IF p > Len(buf.payload) \/ i >= ScanBound(buf)
     THEN [headerEnd |-> 0, headerText |-> acc]
     ELSE IF buf.payload[p] = 10
     THEN (IF cur = << "end_header" >>
           THEN [headerEnd |-> i + 1, headerText |-> Append(acc, cur)]
           ELSE ScanPayload(buf, p + 1, base, Append(acc, cur), << >>))
     ELSE ScanPayload(buf, p + 1, base, acc,
                      IF buf.payload[p] \in Whitespace THEN cur ELSE Garbage)

\* a scan loop that does not break at the first end_header line: it runs on
\* over the text lines behind it and keeps the last sentinel it saw
RECURSIVE ScanLines_NoBreak(_, _, _, _)
ScanLines_NoBreak(buf, j, start, acc) ==
  IF j > Len(buf.header)
  THEN (IF \E k \in 1..Len(acc) : acc[k] = << "end_header" >>
        THEN [headerEnd |-> start, headerText |-> acc]
        ELSE ScanPayload(buf, 1, start, acc, << >>))
  ELSE LET l == buf.header[j]
           i == start + LineLen(l)
       IN IF ~l.nl THEN ScanPayload(buf, 1, i, acc, l.words)
          ELSE IF i >= ScanBound(buf) THEN [headerEnd |-> 0, headerText |-> acc]
          ELSE ScanLines_NoBreak(buf, j + 1, i + 1, Append(acc, l.words))

\* The scan loop over the header lines: line j starts at byte start, its
\* 0x0A is byte start + LineLen; acc is headerText so far.  A line without
\* 0x0A runs on into the payload.
RECURSIVE ScanLines(_, _, _, _)
ScanLines(buf, j, start, acc) ==
  IF j > Len(buf.header) THEN ScanPayload(buf, 1, start, acc, << >>)
  ELSE LET l == buf.header[j]
           i == start + LineLen(l)
       IN IF ~l.nl THEN ScanPayload(buf, 1, i, acc, l.words)
          ELSE IF i >= ScanBound(buf) THEN [headerEnd |-> 0, headerText |-> acc]
          ELSE IF l.words = << "end_header" >>
          THEN [headerEnd |-> i + 1, headerText |-> Append(acc, l.words)]
          ELSE ScanLines(buf, j + 1, i + 1, Append(acc, l.words))

\* the header search: headerEnd (0 when end_header was not found) and headerText
FindHeaderEnd(buf) == ScanLines(buf, 1, 0, << >>)

\* the ASCII bytes of the words that stand in text lines behind an end_header
\* line in the files of this model
WordBytes(w) ==
  CASE w = "element" -> << 101, 108, 101, 109, 101, 110, 116 >>
    [] w = "vertex" -> << 118, 101, 114, 116, 101, 120 >>
    [] w = "3" -> << 51 >>
    [] w = "property" -> << 112, 114, 111, 112, 101, 114, 116, 121 >>
    [] w = "float" -> << 102, 108, 111, 97, 116 >>
    [] w = "q" -> << 113 >>
    [] w = "format" -> << 102, 111, 114, 109, 97, 116 >>
    [] w = "binary_big_endian" -> << 98, 105, 110, 97, 114, 121, 95, 98, 105, 103, 95, 101, 110, 100, 105, 97, 110 >>
    [] w = "1.0" -> << 49, 46, 48 >>
    [] w = "end_header" -> << 101, 110, 100, 95, 104, 101, 97, 100, 101, 114 >>
    [] w = "x" -> << 120 >>

RECURSIVE JoinWords(_)
JoinWords(ws) ==
  IF ws = << >> THEN << >>
  ELSE IF Len(ws) = 1 THEN WordBytes(ws[1])
  ELSE WordBytes(ws[1]) \o << 32 >> \o JoinWords(Tail(ws))

\* the bytes of a text line: its words, its trailing blanks, its 0x0A
LineBytes(l) ==
  JoinWords(l.words) \o [j \in 1..l.pad |-> 32] \o (IF l.nl THEN << 10 >> ELSE << >>)

\* the bytes of the text lines from byte offset n of the text on (n is the
\* start of a line)
RECURSIVE TextFrom(_, _)
TextFrom(h, n) ==
  IF h = << >> THEN << >>
  ELSE IF n > 0 THEN TextFrom(Tail(h), n - LineLen(Head(h)) - (IF Head(h).nl THEN 1 ELSE 0))
  ELSE LineBytes(Head(h)) \o TextFrom(Tail(h), 0)

\* the bytes new DataView(buffer, headerEnd) covers: everything from byte
\* headerEnd on, be it the text of further lines or the payload
DataBytes(buf, hEnd) ==
  IF hEnd >= HeaderLen(buf.header)
  THEN SubSeq(buf.payload, hEnd - HeaderLen(buf.header) + 1, Len(buf.payload))
  ELSE TextFrom(buf.header, hEnd) \o buf.payload

\* ----------------------------------------------------------- header parsing

\* line.startsWith("a b") for a trimmed line given by its words
StartsWith(words, a, b) == Len(words) >= 2 /\ words[1] = a /\ words[2] = b

\* parts[n] of line.split(" ") (n is 0-based), "undefined" past the end
Part(words, n) == IF n + 1 <= Len(words) THEN words[n + 1] ELSE "undefined"

\* parseInt on the count tokens of the model: a whole number (k = "fin", v the
\* integer itself) or NaN
parseInt(w) ==
  CASE w = "0" -> Fin(0)
    [] w = "1" -> Fin(1)
    [] w = "2" -> Fin(2)
    [] w = "3" -> Fin(3)
    [] w = "4" -> Fin(4)
    [] w = "-1" -> Fin(-1)
    [] OTHER -> NaN

\* the state of the header loop before its first line
HeaderStart ==
  [vertexCount |-> Fin(0), isBinary |-> FALSE, isLittleEndian |-> TRUE, properties |-> << >>]

\* a header loop iteration that takes every binary format line as little-endian
HeaderLine_BigAsLittle(h, line) ==
  IF StartsWith(line, "format", "binary_little_endian") \/ StartsWith(line, "format", "binary_big_endian")
  THEN [h EXCEPT !.isBinary = TRUE, !.isLittleEndian = TRUE]
  ELSE IF StartsWith(line, "element", "vertex")
  THEN [h EXCEPT !.vertexCount = parseInt(Part(line, 2))]
  ELSE IF StartsWith(line, "property", "float") \/ StartsWith(line, "property", "double")
  THEN [h EXCEPT !.properties = Append(@, [name |-> Part(line, 2), type |-> Part(line, 1)])]
  ELSE h

\* one iteration of the header loop
HeaderLine(h, line) ==
  IF StartsWith(line, "format", "binary_little_endian")
  THEN [h EXCEPT !.isBinary = TRUE, !.isLittleEndian = TRUE]
  ELSE IF StartsWith(line, "format", "binary_big_endian")
  THEN [h EXCEPT !.isBinary = TRUE, !.isLittleEndian = FALSE]
  ELSE IF StartsWith(line, "element", "vertex")
  THEN [h EXCEPT !.vertexCount = parseInt(Part(line, 2))]
  ELSE IF StartsWith(line, "property", "float") \/ StartsWith(line, "property", "double")
  THEN [h EXCEPT !.properties = Append(@, [name |-> Part(line, 2), type |-> Part(line, 1)])]
  ELSE h

RECURSIVE HeaderLoop(_, _)
HeaderLoop(h, lines) ==
  IF lines = << >> THEN h ELSE HeaderLoop(HeaderLine(h, Head(lines)), Tail(lines))

\* the header loop over headerText
ParseHeaderText(lines) == HeaderLoop(HeaderStart, lines)

\* vertexCount === 0 || properties.length === 0
HeaderRejected(h) == h.vertexCount = Fin(0) \/ Len(h.properties) = 0

Max(S) == CHOOSE m \in S : \A n \in S : n <= m

\* propIndex: the last (0-based) index at which each declared name occurs
PropIndexOf(props) ==
  [n \in {props[j].name : j \in 1..Len(props)} |->
     Max({j \in 1..Len(props) : props[j].name = n}) - 1]

\* !hasX || !hasY || !hasZ
PositionMissing(pidx) == ~({"x", "y", "z"} \subseteq DOMAIN pidx)

\* ------------------------------------------------------------ record decode

\* C0 of the spherical-harmonic conversion, 0.28209479177387814, in thousandths
C0 == 282

\* properties.length * 4
BytesPerVertex(h) == Len(h.properties) * 4

\* a cut test that looks only at the start of the record
RecordCut_StartOnly(offset, bytesPerVertex, byteLength) == offset >= byteLength

\* offset + bytesPerVertex > dataView.byteLength
RecordCut(offset, bytesPerVertex, byteLength) == offset + bytesPerVertex > byteLength

\* i < vertexCount (false when vertexCount is NaN)
LoopRuns(idx, count) == count.k = "fin" /\ idx < count.v

\* a field offset that takes the column index for a byte offset
FieldOffset_NoStride(offset, pidx, name) == offset + pidx[name]

\* offset + propIndex[name] * 4
FieldOffset(offset, pidx, name) == offset + pidx[name] * 4

Field(data, offset, pidx, name, le) == getFloat32(data, FieldOffset(offset, pidx, name), le)

HasAll(pidx, names) == names \subseteq DOMAIN pidx

\* a validity test that looks only at x
InvalidPosition_XOnly(x, y, z) == ~NumberIsFinite(x)

\* !Number.isFinite(x) || !Number.isFinite(y) || !Number.isFinite(z)
InvalidPosition(x, y, z) == ~NumberIsFinite(x) \/ ~NumberIsFinite(y) \/ ~NumberIsFinite(z)

\* a conversion without the 0.5 offset
ShChannel_NoOffset(f) == MathMax(Fin(0), MathMin(Fin(SCALE), Scale(C0, f)))

\* Math.max(0, Math.min(1, 0.5 + C0 * f))
ShChannel(f) == MathMax(Fin(0), MathMin(Fin(SCALE), Plus(Fin(SCALE \div 2), Scale(C0, f))))

\* r > 1 ? r / 255 : r
RgbChannel(r) == IF Lt(Fin(SCALE), r) THEN DivBy(r, 255) ELSE r

\* the three numbers pushed on colors for the record at offset
VertexColor(data, offset, pidx, le) ==
  IF HasAll(pidx, {"f_dc_0", "f_dc_1", "f_dc_2"})
  THEN << ShChannel(Field(data, offset, pidx, "f_dc_0", le)),
          ShChannel(Field(data, offset, pidx, "f_dc_1", le)),
          ShChannel(Field(data, offset, pidx, "f_dc_2", le)) >>
  ELSE IF HasAll(pidx, {"red", "green", "blue"})
  THEN << RgbChannel(Field(data, offset, pidx, "red", le)),
          RgbChannel(Field(data, offset, pidx, "green", le)),
          RgbChannel(Field(data, offset, pidx, "blue", le)) >>
  ELSE << Fin(700), Fin(700), Fin(700) >>

\* Math.max(0.001, Math.min(0.1, avgScale * 0.02))
VertexSize(data, offset, pidx, le) ==
  IF HasAll(pidx, {"scale_0", "scale_1", "scale_2"})
  THEN LET s0 == Field(data, offset, pidx, "scale_0", le)
           s1 == Field(data, offset, pidx, "scale_1", le)
           s2 == Field(data, offset, pidx, "scale_2", le)
           avgScale == DivBy(Plus(Plus(MathExp(s0), MathExp(s1)), MathExp(s2)), 3)
       IN MathMax(Fin(1), MathMin(Fin(100), Scale(20, avgScale)))
  ELSE Fin(10)

\* Math.max(0.1, Math.min(1.0, 1 / (1 + Math.exp(-opRaw))))
VertexOpacity(data, offset, pidx, le) ==
  IF "opacity" \in DOMAIN pidx
  THEN LET opRaw == Field(data, offset, pidx, "opacity", le)
           op == Recip(Plus(Fin(SCALE), MathExp(Neg(opRaw))))
       IN MathMax(Fin(100), MathMin(Fin(SCALE), op))
  ELSE Fin(800)

\* the names whose fields are read for a record with a finite position
AttributeNames(pidx) ==
  (IF HasAll(pidx, {"f_dc_0", "f_dc_1", "f_dc_2"}) THEN {"f_dc_0", "f_dc_1", "f_dc_2"}
   ELSE IF HasAll(pidx, {"red", "green", "blue"}) THEN {"red", "green", "blue"} ELSE {})
  \cup (IF HasAll(pidx, {"scale_0", "scale_1", "scale_2"}) THEN {"scale_0", "scale_1", "scale_2"} ELSE {})
  \cup (IF "opacity" \in DOMAIN pidx THEN {"opacity"} ELSE {})

\* ------------------------------------------------------------- scene files

\* a float32 of the input files: its bytes, most significant first, and the
\* number they stand for
F(b1, b2, b3, b4, num) == [bytes |-> << b1, b2, b3, b4 >>, num |-> num]
FZero == F(0, 0, 0, 0, Fin(0))
FHalf == F(63, 0, 0, 0, Fin(500))
FOne == F(63, 128, 0, 0, Fin(1000))
FMinusOne == F(191, 128, 0, 0, Fin(-1000))
FTwo == F(64, 0, 0, 0, Fin(2000))
FMinusEight == F(193, 0, 0, 0, Fin(-8000))
F255 == F(67, 127, 0, 0, Fin(255000))
F300 == F(67, 150, 0, 0, Fin(300000))
FNaN == F(127, 192, 0, 0, NaN)
FPosInf == F(127, 128, 0, 0, PosInf)
FNegInf == F(255, 128, 0, 0, NegInf)

Pool == {FZero, FHalf, FOne, FMinusOne, FTwo, FMinusEight, F255, F300, FNaN, FPosInf, FNegInf}

\* the column values of the record template "ramp"
RampVals == << FHalf, FMinusOne, FTwo, FZero, FOne, FMinusEight, FTwo, F255, FHalf, FOne >>

Templates ==
  {"ramp", "zero", "poison1", "poison2", "poison3", "attrNaN", "attrBig", "attrNeg"}

\* the value a record template puts in column c (1-based)
TemplateVal(t, c) ==
  CASE t = "ramp" -> RampVals[c]
    [] t = "zero" -> FZero
    [] t = "poison1" -> IF c = 1 THEN FNaN ELSE RampVals[c]
    [] t = "poison2" -> IF c = 2 THEN FPosInf ELSE RampVals[c]
    [] t = "poison3" -> IF c = 3 THEN FNegInf ELSE RampVals[c]
    [] t = "attrNaN" -> IF c <= 3 THEN FOne ELSE FNaN
    [] t = "attrBig" -> IF c <= 3 THEN FTwo ELSE F300
    [] t = "attrNeg" -> IF c <= 3 THEN FHalf ELSE FMinusEight
    [] t = "wide" -> IF c = 1 THEN FMinusEight ELSE RampVals[c]

\* the float/double properties a header layout declares, in order
LayoutProps(l) ==
  CASE l = "xyz" -> << "x", "y", "z" >>
    [] l = "sh" -> << "x", "y", "z", "f_dc_0", "f_dc_1", "f_dc_2", "opacity" >>
    [] l = "rgb" -> << "x", "y", "z", "red", "green", "blue" >>
    [] l = "scale" -> << "x", "y", "z", "scale_0", "scale_1", "scale_2" >>
    [] l = "perm" -> << "opacity", "z", "y", "x" >>
    [] l = "dbl" -> << "x", "y", "z" >>
    [] l = "noz" -> << "x", "y" >>
    [] l = "none" -> << >>

Layouts == {"xyz", "sh", "rgb", "scale", "perm", "dbl", "noz", "none"}

Line(words) == [words |-> words, pad |-> 0, nl |-> TRUE]

\* the property lines of a layout; "none" declares only a uchar property,
\* "dbl" declares its properties as double
PropLines(l) ==
  IF l = "none" THEN << Line(<< "property", "uchar", "red" >>) >>
  ELSE [c \in 1..Len(LayoutProps(l)) |->
          Line(<< "property", IF l = "dbl" THEN "double" ELSE "float", LayoutProps(l)[c] >>)]

Formats == {"little", "big", "ascii", "absent"}

FormatLines(f) ==
  CASE f = "little" -> << Line(<< "format", "binary_little_endian", "1.0" >>) >>
    [] f = "big" -> << Line(<< "format", "binary_big_endian", "1.0" >>) >>
    [] f = "ascii" -> << Line(<< "format", "ascii", "1.0" >>) >>
    [] f = "absent" -> << >>

\* the count tokens of an element vertex line; "missing" leaves the token
\* out, "absent" leaves the line out
Counts == {"0", "1", "2", "3", "-1", "abc", "missing", "absent"}

CountLines(c) ==
  CASE c = "absent" -> << >>
    [] c = "missing" -> << Line(<< "element", "vertex" >>) >>
    [] OTHER -> << Line(<< "element", "vertex", c >>) >>

\* how the header ends: end_header and 0x0A; end_header, a carriage return
\* and 0x0A; end_header with no 0x0A; no end_header; end_header whose 0x0A is
\* byte SCAN_LIMIT - 1, or byte SCAN_LIMIT, behind a padded comment line
Endings == {"ok", "cr", "nonl", "absent", "atlimit", "pastlimit"}

EndLines(e, before) ==
  LET used == HeaderLen(before) + 7 + 1 + 10
      room == IF e = "atlimit" THEN SCAN_LIMIT - 1 - used ELSE SCAN_LIMIT - used
  IN CASE e = "ok" -> << Line(<< "end_header" >>) >>
       [] e = "cr" -> << [words |-> << "end_header" >>, pad |-> 1, nl |-> TRUE] >>
       [] e = "nonl" -> << [words |-> << "end_header" >>, pad |-> 0, nl |-> FALSE] >>
       [] e = "absent" -> << >>
       [] OTHER -> << [words |-> << "comment" >>, pad |-> room, nl |-> TRUE],
                      Line(<< "end_header" >>) >>

HeaderOf(f, c, l, e) ==
  LET before == << Line(<< "ply" >>) >> \o FormatLines(f) \o CountLines(c) \o PropLines(l)
  IN before \o EndLines(e, before)

RECURSIVE Flatten(_)
Flatten(ss) == IF ss = << >> THEN << >> ELSE Head(ss) \o Flatten(Tail(ss))

\* the bytes of one record of template t over n columns, in the byte order le
RecordBytes(t, n, le) ==
  Flatten([c \in 1..n |-> IF le THEN Reverse4(TemplateVal(t, c).bytes) ELSE TemplateVal(t, c).bytes])

\* the payload: the records of the templates ts, then tail bytes of a cut record
PayloadOf(ts, n, le, tail) ==
  Flatten([r \in 1..Len(ts) |-> RecordBytes(ts[r], n, le)]) \o [j \in 1..tail |-> 1]

\* sequences over S of length at most n
SeqUpTo(S, n) == UNION {[1..m -> S] : m \in 0..n}

\* a scene file, with the choices it was built from (src) kept beside it
SceneFile(f, c, l, e, ts, le, tail) ==
  [header |-> HeaderOf(f, c, l, e),
   payload |-> PayloadOf(ts, Len(LayoutProps(l)), le, tail),
   src |-> [format |-> f, count |-> c, layout |-> l, ending |-> e, recs |-> ts,
            le |-> le, tail |-> tail]]

\* well-formed headers over every layout, every payload of at most MaxRecs
\* records, whole or cut
WellFormedFiles ==
  {SceneFile(f, c, l, "ok", ts, f = "little", tail) :
     f \in {"little", "big"}, c \in {"1", "2", "3"}, l \in Layouts \ {"none", "noz"},
     ts \in SeqUpTo(Templates, MaxRecs), tail \in {0, 3}}

\* every header defect, over a few payloads
DefectFiles ==
  {SceneFile(f, c, l, e, ts, le, 0) :
     f \in Formats, c \in Counts, l \in Layouts, e \in Endings,
     ts \in {<< >>, << "ramp" >>, << "zero", "ramp" >>}, le \in {TRUE}}

EmptyFile ==
  [header |-> << >>, payload |-> << >>,
   src |-> [format |-> "absent", count |-> "absent", layout |-> "none", ending |-> "absent",
            recs |-> << >>, le |-> TRUE, tail |-> 0]]

SceneFiles == WellFormedFiles \cup DefectFiles \cup {EmptyFile}

\* text lines that a file may carry behind its end_header line
Decoys ==
  {<< "element", "vertex", "3" >>, << "property", "float", "q" >>, << "property", "float", "x" >>,
   << "format", "binary_big_endian", "1.0" >>, << "end_header" >>}

\* the typed properties a layout declares
FloatProps(l) == [c \in 1..Len(LayoutProps(l)) |-> [type |-> "float", name |-> LayoutProps(l)[c]]]

\* a well-formed file whose binary part begins with the bytes of the text
\* lines ds; src keeps the choices, the declared properties and the offset of
\* the byte behind the 0x0A of the first end_header line
DecoyFile(f, c, l, ds, ts) ==
  [header |-> HeaderOf(f, c, l, "ok") \o [j \in 1..Len(ds) |-> Line(ds[j])],
   payload |-> PayloadOf(ts, Len(LayoutProps(l)), f = "little", 0),
   src |-> [kind |-> "decoy", format |-> f, count |-> c, props |-> FloatProps(l),
            decoys |-> ds, recs |-> ts, sentinelEnd |-> HeaderLen(HeaderOf(f, c, l, "ok"))]]

DecoyFiles ==
  {DecoyFile(f, c, l, ds, ts) :
     f \in {"little", "big"}, c \in {"1", "2"}, l \in {"xyz", "sh", "perm"},
     ds \in SeqUpTo(Decoys, 2) \ {<< >>}, ts \in SeqUpTo({"ramp", "zero"}, MaxRecs)}

\* vertex elements that declare a property of another type beside their floats
MixedLayouts == {"xyzu", "uxyz", "xyzi", "xuyz"}

MixedProps(ml) ==
  LET P(t, n) == [type |-> t, name |-> n]
  IN CASE ml = "xyzu" -> << P("float", "x"), P("float", "y"), P("float", "z"), P("uchar", "red") >>
       [] ml = "uxyz" -> << P("uchar", "red"), P("float", "x"), P("float", "y"), P("float", "z") >>
       [] ml = "xyzi" -> << P("float", "x"), P("float", "y"), P("float", "z"), P("int", "id") >>
       [] ml = "xuyz" -> << P("float", "x"), P("uchar", "red"), P("float", "y"), P("float", "z") >>

\* the width in bytes of a property of a PLY scalar type
Width(type) == CASE type = "uchar" -> 1 [] type = "int" -> 4 [] type = "float" -> 4

\* the bytes a writer puts for property c of a record of template t: the
\* template's next float for a float, fixed bytes for the other types
RECURSIVE MixedRecord(_, _, _, _, _)
MixedRecord(props, c, col, t, le) ==
  IF c > Len(props) THEN << >>
  ELSE IF props[c].type = "float"
  THEN (IF le THEN Reverse4(TemplateVal(t, col).bytes) ELSE TemplateVal(t, col).bytes)
       \o MixedRecord(props, c + 1, col + 1, t, le)
  ELSE (IF props[c].type = "uchar" THEN << 200 >> ELSE << 0, 0, 0, 7 >>)
       \o MixedRecord(props, c + 1, col, t, le)

MixedHeader(f, c, ml) ==
  << Line(<< "ply" >>) >> \o FormatLines(f) \o CountLines(c)
     \o [j \in 1..Len(MixedProps(ml)) |->
           Line(<< "property", MixedProps(ml)[j].type, MixedProps(ml)[j].name >>)]
     \o << Line(<< "end_header" >>) >>

\* a file written with every declared property at its own width
MixedFile(f, c, ml, ts) ==
  [header |-> MixedHeader(f, c, ml),
   payload |-> Flatten([r \in 1..Len(ts) |-> MixedRecord(MixedProps(ml), 1, 1, ts[r], f = "little")]),
   src |-> [kind |-> "mixed", format |-> f, count |-> c, props |-> MixedProps(ml),
            decoys |-> << >>, recs |-> ts, sentinelEnd |-> HeaderLen(MixedHeader(f, c, ml))]]

MixedFiles ==
  {MixedFile(f, c, ml, ts) :
     f \in {"little", "big"}, c \in {"1", "2"}, ml \in MixedLayouts,
     ts \in SeqUpTo({"ramp", "zero", "poison2"}, MaxRecs)}

ForeignFiles == DecoyFiles \cup MixedFiles

\* ------------------------------------------------------------- the decoder

\* the return value null, and a returned { geometry }
Null == [null |-> TRUE]
Geometry(positions, colors, sizes, opacities) ==
  [geometry |-> [position |-> positions, color |-> colors, size |-> sizes, opacity |-> opacities]]

\* the arrays of the decode loop before its first record; reads collects the
\* offsets handed to getFloat32, thrown tells that one of them raised a RangeError
LoopStart ==
  [positions |-> << >>, colors |-> << >>, sizes |-> << >>, opacities |-> << >>,
   validCount |-> 0, reads |-> {}, thrown |-> FALSE]

\* the decode loop from record i on
RECURSIVE DecodeLoop(_, _, _, _, _)
DecodeLoop(data, h, pidx, i, out) ==
  LET bytesPerVertex == BytesPerVertex(h)
      offset == i * bytesPerVertex
      le == h.isLittleEndian
      posReads == {FieldOffset(offset, pidx, n) : n \in {"x", "y", "z"}}
      attrReads == {FieldOffset(offset, pidx, n) : n \in AttributeNames(pidx)}
  IN IF ~LoopRuns(i, h.vertexCount) THEN out
     ELSE IF RecordCut(offset, bytesPerVertex, Len(data)) THEN out
     ELSE IF \E o \in posReads : OutOfRange(data, o)
     THEN [out EXCEPT !.reads = @ \cup posReads, !.thrown = TRUE]
     ELSE LET x == Field(data, offset, pidx, "x", le)
              y == Field(data, offset, pidx, "y", le)
              z == Field(data, offset, pidx, "z", le)
          IN IF InvalidPosition(x, y, z)
             THEN DecodeLoop(data, h, pidx, i + 1, [out EXCEPT !.reads = @ \cup posReads])
             ELSE IF \E o \in attrReads : OutOfRange(data, o)
             THEN [out EXCEPT !.reads = @ \cup posReads \cup attrReads, !.thrown = TRUE]
             ELSE DecodeLoop(data, h, pidx, i + 1,
                    [out EXCEPT !.positions = @ \o << x, y, z >>,
                                !.validCount = @ + 1,
                                !.colors = @ \o VertexColor(data, offset, pidx, le),
                                !.sizes = Append(@, VertexSize(data, offset, pidx, le)),
                                !.opacities = Append(@, VertexOpacity(data, offset, pidx, le)),
                                !.reads = @ \cup posReads \cup attrReads])

\* a return of null after console.error(msg)
Failed(msg, reads) == [ret |-> Null, console |-> << msg >>, reads |-> reads, thrown |-> FALSE]

\* the locals of a call that did not get to its header
NoLocals ==
  [headerEnd |-> 0, vertexCount |-> Fin(0), isLittleEndian |-> TRUE, properties |-> << >>,
   bytesPerVertex |-> 0, byteLength |-> 0]

\* the locals of parseGaussianSplatPly once the header is found: headerEnd,
\* vertexCount, isLittleEndian, the names in properties, bytesPerVertex and
\* dataView.byteLength
LocalsOf(buf, scan, h) ==
  IF scan.headerEnd = 0 THEN NoLocals
  ELSE [headerEnd |-> scan.headerEnd, vertexCount |-> h.vertexCount,
        isLittleEndian |-> h.isLittleEndian,
        properties |-> [j \in 1..Len(h.properties) |-> h.properties[j].name],
        bytesPerVertex |-> BytesPerVertex(h),
        byteLength |-> Len(DataBytes(buf, scan.headerEnd))]

\* the outcome of parseGaussianSplatPly(buffer): the value returned (ret), the
\* console.error messages, the getFloat32 offsets used, and whether a
\* RangeError escaped
Outcome(buf, scan, h) ==
  LET pidx == PropIndexOf(h.properties)
      out == DecodeLoop(DataBytes(buf, scan.headerEnd), h, pidx, 0, LoopStart)
  IN IF scan.headerEnd = 0 THEN Failed("Could not find end_header", {})
     ELSE IF HeaderRejected(h) THEN Failed("No vertices or properties", {})
     ELSE IF PositionMissing(pidx) THEN Failed("Missing position properties", {})
     ELSE IF out.thrown
     THEN [ret |-> Null, console |-> << >>, reads |-> out.reads, thrown |-> TRUE]
     ELSE IF out.validCount = 0 THEN Failed("No valid vertices", out.reads)
     ELSE [ret |-> Geometry(out.positions, out.colors, out.sizes, out.opacities),
           console |-> << >>, reads |-> out.reads, thrown |-> FALSE]

\* parseGaussianSplatPly(buffer): its outcome, and its locals beside it
WithLocals(res, locals) ==
  [ret |-> res.ret, console |-> res.console, reads |-> res.reads, thrown |-> res.thrown,
   locals |-> locals]

parseGaussianSplatPly(buf) ==
  LET scan == FindHeaderEnd(buf)
      h == ParseHeaderText(scan.headerText)
  IN WithLocals(Outcome(buf, scan, h), LocalsOf(buf, scan, h))

\* ------------------------------------------------------------------- state

VARIABLES
  buffer,          \* decoder run: the ArrayBuffer handed to parseGaussianSplatPly
  pc,              \* decoder run: "call" before the call, "returned" after it
  parsed,          \* decoder run: what the call produced
  mounted,         \* GaussianSplatMesh: groupRef.current is set
  plyUrl,          \* GaussianSplatMesh: the plyUrl prop
  loads,           \* GaussianSplatMesh: the calls of loadGaussianSplat, in the order started
  children,        \* GaussianSplatMesh: groupRef.current.children
  disposed,        \* GaussianSplatMesh: the loads whose geometry had dispose() called
  loadingProgress, \* GaussianSplatMesh: the loadingProgress state
  caught,          \* GaussianSplatMesh: the loads whose error reached the catch block
  variant,         \* navigator: "ground" (GaussianSplatViewer) or "orbit" (ImmersiveControls)
  keys,            \* navigator: the flags of keysRef.current / keys.current that are true
  isLocked,        \* navigator: controlsRef.current.isLocked of the PointerLockControls
  yaw,             \* navigator: the camera's rotation about the vertical axis, in quarter turns
  camera,          \* navigator: camera.position, [x, y, z] in thousandths
  target,          \* navigator: the OrbitControls target, [x, y, z] in thousandths
  ticks,           \* navigator: frames run so far
  phase,           \* navigator: "rendered", "mounted", "detached" or "unmounted"
  listeners,       \* navigator: the event types whose listener is registered
  isPointerLocked, \* SceneViewer: the isPointerLocked state
  showHint,        \* SceneViewer: the showHint state
  writes,          \* navigator: the components of camera.position the last frame assigned
  held,            \* keyboard: the e.code values of the keys held down, where the keyboard is modelled
  page,            \* Home: "page.tsx" or "part_003" (the page with an API key field)
  apiKey,          \* Home: the apiKey state ("" on the page without one)
  isLoading,       \* Home: the isLoading state
  error,           \* Home: the error state, << >> for null, else << message >>
  result,          \* Home: the result state, << >> for null, else << GenerationResult >>
  calls            \* Home: the calls of handleGenerate that got past the key check

decVars == << buffer, pc, parsed >>
loadVars == << mounted, plyUrl, loads, children, disposed, loadingProgress, caught >>
navVars == << variant, keys, isLocked, yaw, camera, target, ticks, phase, listeners,
             isPointerLocked, showHint, writes, held >>
pageVars == << page, apiKey, isLoading, error, result, calls >>
vars == << buffer, pc, parsed, mounted, plyUrl, loads, children, disposed, loadingProgress,
           caught, variant, keys, isLocked, yaw, camera, target, ticks, phase, listeners,
           isPointerLocked, showHint, writes, held, page, apiKey,
           isLoading, error, result, calls >>

NotRun == [ret |-> Null, console |-> << >>, reads |-> {}, thrown |-> FALSE, locals |-> NoLocals]

\* --------------------------------------------------------- the decoder run

\* the mesh of a run that has no viewer
\* no page is mounted
NoPage ==
  /\ page = "none" /\ apiKey = "" /\ isLoading = FALSE /\ error = << >> /\ result = << >>
  /\ calls = << >>

NoViewer ==
  /\ mounted = FALSE /\ plyUrl = "" /\ loads = << >> /\ children = << >>
  /\ disposed = {} /\ loadingProgress = 0 /\ caught = {}

\* the navigator of a run that has none
NoNavigator ==
  /\ variant = "none" /\ keys = {} /\ isLocked = FALSE /\ yaw = 0
  /\ camera = [x |-> Fin(0), y |-> Fin(0), z |-> Fin(0)]
  /\ target = [x |-> Fin(0), y |-> Fin(0), z |-> Fin(0)] /\ ticks = 0
  /\ phase = "none" /\ listeners = {} /\ isPointerLocked = FALSE /\ showHint = TRUE
  /\ writes = {}
  /\ held = {}

DecInit ==
  /\ buffer \in SceneFiles
  /\ pc = "call"
  /\ parsed = NotRun
  /\ NoViewer
  /\ NoNavigator
  /\ NoPage

\* one call of parseGaussianSplatPly
Decode ==
  /\ pc = "call"
  /\ parsed' = parseGaussianSplatPly(buffer)
  /\ pc' = "returned"
  /\ UNCHANGED << buffer, loadVars, navVars, pageVars >>

DecNext == Decode

SpecDecode == DecInit /\ [][DecNext]_vars

\* the decoder run on files with text behind the end_header line or with
\* properties of other types
ForeignInit ==
  /\ buffer \in ForeignFiles
  /\ pc = "call"
  /\ parsed = NotRun
  /\ NoViewer
  /\ NoNavigator
  /\ NoPage

SpecForeign == ForeignInit /\ [][DecNext]_vars

\* --------------------------------------------------------- the scene mesh

\* largest number of loads one mesh starts
MaxLoads == 3

\* the scene files behind the URLs of the model
Urls == {"sceneA", "sceneB", "noEnd", "zeroCount", "noZ", "allNaN"}
FileAt(u) ==
  CASE u = "sceneA" -> SceneFile("little", "2", "sh", "ok", << "ramp", "zero" >>, TRUE, 0)
    [] u = "sceneB" -> SceneFile("big", "2", "xyz", "ok", << "wide", "attrBig" >>, FALSE, 0)
    [] u = "noEnd" -> SceneFile("little", "1", "xyz", "absent", << "ramp" >>, TRUE, 0)
    [] u = "zeroCount" -> SceneFile("little", "0", "xyz", "ok", << >>, TRUE, 0)
    [] u = "noZ" -> SceneFile("little", "1", "noz", "ok", << "ramp" >>, TRUE, 0)
    [] u = "allNaN" -> SceneFile("little", "1", "xyz", "ok", << "poison1" >>, TRUE, 0)

\* parseGaussianSplatPly on the file behind each URL
ParsedAt == [u \in Urls |-> parseGaussianSplatPly(FileAt(u))]

\* a call of loadGaussianSplat: its URL, where it stands ("fetch": awaiting
\* fetch, "body": awaiting arrayBuffer, then "shown", "skipped" or "failed"),
\* what parseGaussianSplatPly gave it, and what its catch block caught
\* ("http": the response was not ok, "network": fetch rejected, "body":
\* arrayBuffer rejected, "decode": the decoder threw)
NewLoad(u) ==
  [url |-> u, stage |-> "fetch", splatData |-> Null, decodeLog |-> << >>, error |-> "none"]

Axis(positions, a) == {positions[j].v : j \in {j \in 1..Len(positions) : j % 3 = a % 3}}
MinOf(S) == CHOOSE m \in S : \A n \in S : m <= n

\* box.getCenter and the largest of box.getSize over the x (1), y (2), z (3) values
BoxCenter(positions) ==
  [a \in 1..3 |-> (MinOf(Axis(positions, a)) + Max(Axis(positions, a))) \div 2]
BoxMaxDim(positions) ==
  Max({Max(Axis(positions, a)) - MinOf(Axis(positions, a)) : a \in 1..3})

\* the largest extent shown unscaled, 5 scene units, in thousandths
MAX_DIM == 5000

\* a scale that fits every scene to the largest extent, small ones too
FrameScale_FitAlways(maxDim) == IF maxDim > 0 THEN (MAX_DIM * SCALE) \div maxDim ELSE SCALE

\* the scale set on the points: 5 / maxDim when maxDim > 5, else the default 1
FrameScale(maxDim) == IF maxDim > MAX_DIM THEN (MAX_DIM * SCALE) \div maxDim ELSE SCALE

\* Number.isFinite of box.min and box.max on every axis
BoxFinite(positions) == \A j \in 1..Len(positions) : NumberIsFinite(positions[j])

\* new THREE.Points(splatData.geometry, material) of load l after the
\* rotation, centering and scaling steps; with a box that is not finite the
\* points keep the default position and scale
PointsOf(l, splatData) ==
  LET positions == splatData.geometry.position
  IN IF BoxFinite(positions)
     THEN [load |-> l, geometry |-> l, material |-> l, rotationX |-> "PI",
           position |-> [a \in 1..3 |-> 0 - BoxCenter(positions)[a]],
           scale |-> FrameScale(BoxMaxDim(positions))]
     ELSE [load |-> l, geometry |-> l, material |-> l, rotationX |-> "PI",
           position |-> [a \in 1..3 |-> 0], scale |-> SCALE]

\* a vector turned by PI about the x axis
RotateX(p) == << p[1], 0 - p[2], 0 - p[3] >>

\* where the object's matrix (position, then rotation, then scale) puts the
\* local point p
WorldOf(points, p) ==
  [a \in 1..3 |-> points.position[a] + (points.scale * RotateX(p)[a]) \div SCALE]

\* a group that keeps its children when points are added
ClearAndAdd_KeepOld(group, points) == Append(group, points)

\* the children of the group after the loop that removes every child and the
\* add(points) that follows it
ClearAndAdd(group, points) == << points >>

\* if (groupRef.current && splatData)
CanShow(isMounted, splatData) == isMounted /\ splatData # Null

LoadInit ==
  /\ buffer = EmptyFile /\ pc = "idle" /\ parsed = NotRun
  /\ mounted = TRUE
  /\ plyUrl \in Urls
  /\ loads = << NewLoad(plyUrl) >>
  /\ children = << >>
  /\ disposed = {}
  /\ loadingProgress = 0
  /\ caught = {}
  /\ NoNavigator
  /\ NoPage

\* the plyUrl prop changes: the effect runs again and calls loadGaussianSplat
ChangeUrl(u) ==
  /\ mounted
  /\ u # plyUrl
  /\ Len(loads) < MaxLoads
  /\ plyUrl' = u
  /\ loads' = Append(loads, NewLoad(u))
  /\ UNCHANGED << decVars, navVars, pageVars, mounted, children, disposed, loadingProgress, caught >>

\* fetch resolves with response.ok
FetchOk(l) ==
  /\ loads[l].stage = "fetch"
  /\ loads' = [loads EXCEPT ![l].stage = "body"]
  /\ UNCHANGED << decVars, navVars, pageVars, mounted, plyUrl, children, disposed, loadingProgress, caught >>

\* a failed fetch that empties the group
FetchNotOk_ClearsGroup(l) ==
  /\ loads[l].stage = "fetch"
  /\ loads' = [loads EXCEPT ![l].stage = "failed", ![l].error = "http"]
  /\ caught' = caught \cup {l}
  /\ children' = << >>
  /\ UNCHANGED << decVars, navVars, pageVars, mounted, plyUrl, disposed, loadingProgress >>

\* fetch resolves with a response that is not ok: the throw lands in the catch block
FetchNotOk(l) ==
  /\ loads[l].stage = "fetch"
  /\ loads' = [loads EXCEPT ![l].stage = "failed", ![l].error = "http"]
  /\ caught' = caught \cup {l}
  /\ UNCHANGED << decVars, navVars, pageVars, mounted, plyUrl, children, disposed, loadingProgress >>

\* fetch rejects
FetchReject(l) ==
  /\ loads[l].stage = "fetch"
  /\ loads' = [loads EXCEPT ![l].stage = "failed", ![l].error = "network"]
  /\ caught' = caught \cup {l}
  /\ UNCHANGED << decVars, navVars, pageVars, mounted, plyUrl, children, disposed, loadingProgress >>

\* response.arrayBuffer() rejects
BodyReject(l) ==
  /\ loads[l].stage = "body"
  /\ loads' = [loads EXCEPT ![l].stage = "failed", ![l].error = "body"]
  /\ caught' = caught \cup {l}
  /\ UNCHANGED << decVars, navVars, pageVars, mounted, plyUrl, children, disposed, loadingProgress >>

\* response.arrayBuffer() resolves: the rest of loadGaussianSplat runs without
\* another await
BodyResolve(l) ==
  /\ loads[l].stage = "body"
  /\ LET res == ParsedAt[loads[l].url]
     IN IF res.thrown
        THEN /\ loads' = [loads EXCEPT ![l].stage = "failed", ![l].error = "decode"]
             /\ caught' = caught \cup {l}
             /\ loadingProgress' = 50
             /\ UNCHANGED << children, disposed >>
        ELSE IF CanShow(mounted, res.ret)
        THEN /\ loads' = [loads EXCEPT ![l].stage = "shown", ![l].splatData = res.ret,
                                       ![l].decodeLog = res.console]
             /\ disposed' = disposed \cup {children[j].geometry : j \in 1..Len(children)}
             /\ children' = ClearAndAdd(children, PointsOf(l, res.ret))
             /\ loadingProgress' = 100
             /\ UNCHANGED caught
        ELSE /\ loads' = [loads EXCEPT ![l].stage = "skipped", ![l].splatData = res.ret,
                                       ![l].decodeLog = res.console]
             /\ loadingProgress' = 80
             /\ UNCHANGED << children, disposed, caught >>
  /\ UNCHANGED << decVars, navVars, pageVars, mounted, plyUrl >>

\* the mesh unmounts: React clears groupRef.current
Unmount ==
  /\ mounted
  /\ mounted' = FALSE
  /\ UNCHANGED << decVars, navVars, pageVars, plyUrl, loads, children, disposed, loadingProgress, caught >>

LoadNext ==
  \/ \E u \in Urls : ChangeUrl(u)
  \/ \E l \in 1..Len(loads) : FetchOk(l)
  \/ \E l \in 1..Len(loads) : FetchNotOk(l)
  \/ \E l \in 1..Len(loads) : FetchReject(l)
  \/ \E l \in 1..Len(loads) : BodyReject(l)
  \/ \E l \in 1..Len(loads) : BodyResolve(l)
  \/ Unmount

SpecLoad == LoadInit /\ [][LoadNext]_vars

\* a pending promise of some load settles
Settle ==
  \E l \in 1..Len(loads) :
     FetchOk(l) \/ FetchNotOk(l) \/ FetchReject(l) \/ BodyReject(l) \/ BodyResolve(l)

\* the scene mesh where every pending promise settles in the end
SpecLoadFair == SpecLoad /\ WF_vars(Settle)

\* the materials that had dispose() called: the loop that clears the group
\* disposes child.geometry only, and nothing else releases a material
MaterialsDisposed == {}

\* what the mesh renders: its group, holding a point set ("ready") or
\* nothing, as while its first load is outstanding ("loading"); no other
\* state of the mesh reaches its render output or its parent
ViewerState == IF children # << >> THEN "ready" ELSE "loading"

\* ---------------------------------------------------------- the navigators

\* MOVEMENT_BOUNDS of the ground-locked navigator, in thousandths
\* a cage whose locked height is eye level
MOVEMENT_BOUNDS_EyeLevel ==
  [minX |-> -2000, maxX |-> 2000, minZ |-> -1000, maxZ |-> 2000, lockedY |-> 1600]

MOVEMENT_BOUNDS == [minX |-> -2000, maxX |-> 2000, minZ |-> -1000, maxZ |-> 2000, lockedY |-> 0]

\* BOUNDS of the orbit navigator, in thousandths
BOUNDS == [minX |-> -5000, maxX |-> 5000, minY |-> -3000, maxY |-> 3000,
           minZ |-> -5000, maxZ |-> 5000]

\* movement speeds, in thousandths of a unit per second
MOVE_SPEED == 2000
moveSpeed == 2500

\* the frame deltas of the model, in thousandths of a second
Deltas == {250, 2000}

\* frame deltas that are no finite number
NonFiniteDeltas == {NaN, PosInf}

\* the quarter turns the model's pointer turns the camera to
Turns == 0..2

\* the e.code values and the e.key values the model's keyboard sends
Codes == {"KeyW", "ArrowUp", "KeyS", "ArrowDown", "KeyA", "ArrowLeft", "KeyD", "ArrowRight", "Space"}
KeyNames == {"w", "W", "d", "e", "x"}

\* the flag an e.code is bound to by the switch of handleKeyDown / handleKeyUp
FlagOf(code) ==
  CASE code \in {"KeyW", "ArrowUp"} -> {"forward"}
    [] code \in {"KeyS", "ArrowDown"} -> {"backward"}
    [] code \in {"KeyA", "ArrowLeft"} -> {"left"}
    [] code \in {"KeyD", "ArrowRight"} -> {"right"}
    [] OTHER -> {}

\* e.key.toLowerCase()
toLowerCase(k) == IF k = "W" THEN "w" ELSE k

\* a Vector3 of finite coordinates given in thousandths
Vec(x, y, z) == [x |-> Fin(x), y |-> Fin(y), z |-> Fin(z)]

VecFinite(v) == NumberIsFinite(v.x) /\ NumberIsFinite(v.y) /\ NumberIsFinite(v.z)

\* Vector3.add, Vector3.sub
VAdd(a, b) == [x |-> Plus(a.x, b.x), y |-> Plus(a.y, b.y), z |-> Plus(a.z, b.z)]
\* a difference taken the other way round
VSub_Reversed(a, b) == [x |-> Plus(b.x, Neg(a.x)), y |-> Plus(b.y, Neg(a.y)), z |-> Plus(b.z, Neg(a.z))]

VSub(a, b) == [x |-> Plus(a.x, Neg(b.x)), y |-> Plus(a.y, Neg(b.y)), z |-> Plus(a.z, Neg(b.z))]

\* Math.max(lo, Math.min(hi, v))
Clamp(lo, hi, v) == MathMax(Fin(lo), MathMin(Fin(hi), v))

\* Number(flag)
Num(flag) == IF flag \in keys THEN 1 ELSE 0

\* the components of a unit vector with n non-zero components of equal size;
\* normalize() leaves the zero vector as it is
UnitPart(n) == CASE n = 0 -> 0 [] n = 1 -> 1000 [] n = 2 -> 707 [] n = 3 -> 577

\* direction.normalize().multiplyScalar(speed * delta) for a direction with
\* components -1, 0, 1: every component is multiplied by speed * delta, the
\* zero ones too
ScaledDirection(d, speed, delta) ==
  LET n == Abs(d.x) + Abs(d.y) + Abs(d.z)
      step == Scale(speed, delta)
      part(c) == IF c = 0 THEN Scale(0, step)
                 ELSE IF c = 1 THEN Scale(UnitPart(n), step)
                 ELSE Neg(Scale(UnitPart(n), step))
  IN [x |-> part(d.x), y |-> part(d.y), z |-> part(d.z)]

\* a vector turned about the vertical axis by q quarter turns (applyEuler,
\* applyQuaternion): every component of the result is a sum of products with
\* every component of the vector, so one non-finite component makes all NaN
RotateY(v, q) ==
  IF ~VecFinite(v) THEN [x |-> NaN, y |-> NaN, z |-> NaN]
  ELSE CASE q % 4 = 0 -> v
         [] q % 4 = 1 -> [x |-> v.z, y |-> v.y, z |-> Neg(v.x)]
         [] q % 4 = 2 -> [x |-> Neg(v.x), y |-> v.y, z |-> Neg(v.z)]
         [] q % 4 = 3 -> [x |-> Neg(v.z), y |-> v.y, z |-> v.x]

NavUnchangedOthers == UNCHANGED << decVars, loadVars, held, pageVars >>

\* the phases in which the useFrame callback is subscribed
Ticking == {"rendered", "mounted"}

\* After the first commit and before the mount effects: the camera stands
\* where the Canvas camera prop puts it, [0, 0, 2] under SceneViewer and
\* [0, 0, 0.8] in the orbit variant; the pointerlockchange listener of
\* SceneViewer, mounted before its Canvas renders, is registered.
NavInit ==
  /\ buffer = EmptyFile /\ pc = "idle" /\ parsed = NotRun
  /\ NoViewer
  /\ NoPage
  /\ variant \in {"ground", "orbit"}
  /\ phase = "rendered"
  /\ listeners = IF variant = "ground" THEN {"pointerlockchange"} ELSE {}
  /\ keys = {}
  /\ isLocked = FALSE
  /\ isPointerLocked = FALSE
  /\ showHint = TRUE
  /\ yaw = 0
  /\ camera = IF variant = "ground" THEN Vec(0, 0, 2000) ELSE Vec(0, 0, 800)
  /\ target = Vec(0, 0, 0)
  /\ writes = {}
  /\ held = {}
  /\ ticks = 0

\* a cleanup that removes the keydown listener only
KeyCleanup_KeydownOnly(ls) == ls \ {"keydown"}

\* the cleanup of the keyboard effect
KeyCleanup(ls) == ls \ {"keydown", "keyup"}

\* the cleanup of the pointer-lock effect of SceneViewer
HostCleanup(ls) == ls \ {"pointerlockchange"}

\* the mount effects: camera.position.set(0, 0, 1.5) in the ground-locked
\* navigator, camera.position.set(0, 0, 0.8) and target.set(0, 0, -0.3) in the
\* orbit navigator; then the keyboard effect registers its listeners
MountEffects ==
  /\ phase = "rendered"
  /\ phase' = "mounted"
  /\ camera' = IF variant = "ground" THEN Vec(0, 0, 1500) ELSE Vec(0, 0, 800)
  /\ target' = IF variant = "ground" THEN target ELSE Vec(0, 0, -300)
  /\ listeners' = listeners \cup {"keydown", "keyup"}
  /\ UNCHANGED << variant, keys, isLocked, isPointerLocked, showHint, yaw, writes, ticks >>
  /\ NavUnchangedOthers

\* the navigator unmounts (SceneViewer renders its loading or empty state, or
\* the orbit viewer is removed): the effect cleanups run, the frame callback
\* is unsubscribed
CanvasUnmount ==
  /\ phase \in Ticking
  /\ phase' = "detached"
  /\ listeners' = IF phase = "mounted" THEN KeyCleanup(listeners) ELSE listeners
  /\ UNCHANGED << variant, keys, isLocked, isPointerLocked, showHint, yaw, camera, target,
                  writes, ticks >>
  /\ NavUnchangedOthers

\* SceneViewer unmounts with whatever it still renders
ViewerUnmount ==
  /\ variant = "ground"
  /\ phase # "unmounted"
  /\ phase' = "unmounted"
  /\ listeners' = HostCleanup(IF phase = "mounted" THEN KeyCleanup(listeners) ELSE listeners)
  /\ UNCHANGED << variant, keys, isLocked, isPointerLocked, showHint, yaw, camera, target,
                  writes, ticks >>
  /\ NavUnchangedOthers

\* SceneViewer: handlePointerLockChange, run if its listener is registered
handlePointerLockChange(locked) ==
  IF "pointerlockchange" \in listeners
  THEN /\ isPointerLocked' = locked
       /\ showHint' = IF locked THEN FALSE ELSE showHint
  ELSE UNCHANGED << isPointerLocked, showHint >>

\* GaussianSplatViewer: handleKeyDown, handleKeyUp
handleKeyDown(code) ==
  /\ variant = "ground"
  /\ "keydown" \in listeners
  /\ keys' = keys \cup FlagOf(code)
  /\ UNCHANGED << variant, phase, listeners, isLocked, isPointerLocked, showHint, yaw, camera,
                  target, writes, ticks >>
  /\ UNCHANGED << decVars, loadVars, pageVars >>

handleKeyUp(code) ==
  /\ variant = "ground"
  /\ "keyup" \in listeners
  /\ keys' = keys \ FlagOf(code)
  /\ UNCHANGED << variant, phase, listeners, isLocked, isPointerLocked, showHint, yaw, camera,
                  target, writes, ticks >>
  /\ UNCHANGED << decVars, loadVars, pageVars >>

\* PointerLockControls: the pointer is captured (a click) or released (Escape);
\* the document fires pointerlockchange
Lock ==
  /\ variant = "ground" /\ phase = "mounted" /\ ~isLocked
  /\ isLocked' = TRUE
  /\ handlePointerLockChange(TRUE)
  /\ UNCHANGED << variant, phase, listeners, keys, yaw, camera, target, writes, ticks >>
  /\ NavUnchangedOthers

Unlock ==
  /\ variant = "ground" /\ phase = "mounted" /\ isLocked
  /\ isLocked' = FALSE
  /\ handlePointerLockChange(FALSE)
  /\ UNCHANGED << variant, phase, listeners, keys, yaw, camera, target, writes, ticks >>
  /\ NavUnchangedOthers

\* the pointer lock held when the canvas went away is released by the
\* browser; the document fires pointerlockchange
PointerLockLost ==
  /\ variant = "ground" /\ phase \in {"detached", "unmounted"} /\ isLocked
  /\ isLocked' = FALSE
  /\ handlePointerLockChange(FALSE)
  /\ UNCHANGED << variant, phase, listeners, keys, yaw, camera, target, writes, ticks >>
  /\ NavUnchangedOthers

\* PointerLockControls: a mouse move while locked turns the camera
Look(q) ==
  /\ variant = "ground" /\ phase = "mounted" /\ isLocked /\ q # yaw
  /\ yaw' = q
  /\ UNCHANGED << variant, phase, listeners, keys, isLocked, isPointerLocked, showHint, camera,
                  target, writes, ticks >>
  /\ NavUnchangedOthers

\* GaussianSplatViewer: the useFrame callback; writes lists the components of
\* camera.position it assigned
GroundFrame(delta) ==
  /\ variant = "ground"
  /\ phase \in Ticking
  /\ ticks < MaxTicks
  /\ ticks' = ticks + 1
  /\ IF ~isLocked THEN camera' = camera /\ writes' = {}
     ELSE LET raw == [x |-> Num("right") - Num("left"), y |-> 0,
                      z |-> Num("backward") - Num("forward")]
              direction == RotateY(ScaledDirection(raw, MOVE_SPEED, delta), yaw)
              newX == Plus(camera.x, direction.x)
              newZ == Plus(camera.z, direction.z)
          IN /\ camera' = [x |-> Clamp(MOVEMENT_BOUNDS.minX, MOVEMENT_BOUNDS.maxX, newX),
                           y |-> Fin(MOVEMENT_BOUNDS.lockedY),
                           z |-> Clamp(MOVEMENT_BOUNDS.minZ, MOVEMENT_BOUNDS.maxZ, newZ)]
             /\ writes' = {"x", "y", "z"}
  /\ UNCHANGED << variant, phase, listeners, keys, isLocked, isPointerLocked, showHint, yaw,
                  target >>
  /\ NavUnchangedOthers

\* ImmersiveControls: onKeyDown, onKeyUp
onKeyDown(k) ==
  /\ variant = "orbit"
  /\ "keydown" \in listeners
  /\ keys' = IF toLowerCase(k) \in {"w", "a", "s", "d", "q", "e"} THEN keys \cup {toLowerCase(k)} ELSE keys
  /\ UNCHANGED << variant, phase, listeners, isLocked, isPointerLocked, showHint, yaw, camera,
                  target, writes, ticks >>
  /\ NavUnchangedOthers

onKeyUp(k) ==
  /\ variant = "orbit"
  /\ "keyup" \in listeners
  /\ keys' = IF toLowerCase(k) \in {"w", "a", "s", "d", "q", "e"} THEN keys \ {toLowerCase(k)} ELSE keys
  /\ UNCHANGED << variant, phase, listeners, isLocked, isPointerLocked, showHint, yaw, camera,
                  target, writes, ticks >>
  /\ NavUnchangedOthers

\* OrbitControls: a pointer drag turns the camera about the target; the
\* camera keeps its distance to the target and keeps facing it
OrbitRotate(q) ==
  /\ variant = "orbit" /\ phase = "mounted" /\ q # yaw
  /\ camera' = VAdd(target, RotateY(VSub(camera, target), q + 4 - yaw))
  /\ yaw' = q
  /\ UNCHANGED << variant, phase, listeners, keys, isLocked, isPointerLocked, showHint, target,
                  writes, ticks >>
  /\ NavUnchangedOthers

\* ImmersiveControls: the useFrame callback
OrbitFrame(delta) ==
  /\ variant = "orbit"
  /\ phase \in Ticking
  /\ ticks < MaxTicks
  /\ ticks' = ticks + 1
  /\ IF keys = {} THEN camera' = camera /\ target' = target /\ writes' = {}
     ELSE LET raw == [x |-> Num("d") - Num("a"), y |-> Num("e") - Num("q"),
                      z |-> Num("s") - Num("w")]
              direction == RotateY(ScaledDirection(raw, moveSpeed, delta), yaw)
              moved == VAdd(camera, direction)
              newPos == [x |-> Clamp(BOUNDS.minX, BOUNDS.maxX, moved.x),
                         y |-> Clamp(BOUNDS.minY, BOUNDS.maxY, moved.y),
                         z |-> Clamp(BOUNDS.minZ, BOUNDS.maxZ, moved.z)]
              actualMove == VSub(newPos, camera)
          IN /\ camera' = newPos
             /\ target' = VAdd(target, actualMove)
             /\ writes' = {"x", "y", "z"}
  /\ UNCHANGED << variant, phase, listeners, keys, isLocked, isPointerLocked, showHint, yaw >>
  /\ NavUnchangedOthers

NavNext ==
  \/ MountEffects
  \/ CanvasUnmount
  \/ ViewerUnmount
  \/ PointerLockLost
  \/ \E code \in Codes : handleKeyDown(code) /\ UNCHANGED held
  \/ \E code \in Codes : handleKeyUp(code) /\ UNCHANGED held
  \/ Lock
  \/ Unlock
  \/ \E q \in Turns : Look(q)
  \/ \E delta \in Deltas : GroundFrame(Fin(delta))
  \/ \E k \in KeyNames : onKeyDown(k)
  \/ \E k \in KeyNames : onKeyUp(k)
  \/ \E q \in Turns : OrbitRotate(q)
  \/ \E delta \in Deltas : OrbitFrame(Fin(delta))

SpecNav == NavInit /\ [][NavNext]_vars

\* the keyboard: a key goes down (or repeats while down) and the window gets
\* its keydown event; a key that is down goes up and the window gets its keyup
KeyPress(code) ==
  /\ held' = held \cup {code}
  /\ handleKeyDown(code)

KeyRelease(code) ==
  /\ code \in held
  /\ held' = held \ {code}
  /\ handleKeyUp(code)

\* the ground-locked navigator with its keyboard
KeysInit == NavInit /\ variant = "ground"

KeysNext ==
  \/ MountEffects
  \/ \E code \in Codes : KeyPress(code)
  \/ \E code \in Codes : KeyRelease(code)
  \/ Lock
  \/ Unlock
  \/ CanvasUnmount

SpecKeys == KeysInit /\ [][KeysNext]_vars

\* the navigators under a frame loop that may hand any number as the delta
AnyDeltaNext ==
  \/ NavNext
  \/ \E delta \in NonFiniteDeltas : GroundFrame(delta)
  \/ \E delta \in NonFiniteDeltas : OrbitFrame(delta)

SpecAnyDelta == NavInit /\ [][AnyDeltaNext]_vars

\* ------------------------------------------------------------ the page

\* largest number of handleGenerate calls of one page
MaxCalls == 3

\* the API keys typed into the key field
ApiKeys == {"", "key"}

\* the bodies of a response with an ok status
Bodies ==
  {[success |-> TRUE, ply_url |-> "/a.ply", image_url |-> "/a.png", message |-> ""],
   [success |-> TRUE, ply_url |-> "/b.ply", image_url |-> "/b.png", message |-> ""],
   [success |-> FALSE, ply_url |-> "", image_url |-> "", message |-> "unsafe prompt"],
   [success |-> FALSE, ply_url |-> "", image_url |-> "", message |-> ""]}

\* the detail fields of the bodies of a response with another status
Details == {"quota exceeded", ""}

\* a || b for strings
OrElse(a, b) == IF a = "" THEN b ELSE a

\* the page after its first render
PageInit ==
  /\ buffer = EmptyFile /\ pc = "idle" /\ parsed = NotRun
  /\ NoViewer
  /\ NoNavigator
  /\ page \in {"page.tsx", "part_003"}
  /\ apiKey = ""
  /\ isLoading = FALSE
  /\ error = << >>
  /\ result = << >>
  /\ calls = << >>

PageUnchangedOthers == UNCHANGED << decVars, loadVars, navVars >>

\* handleApiKeyChange
handleApiKeyChange(key) ==
  /\ page = "part_003"
  /\ key # apiKey
  /\ apiKey' = key
  /\ UNCHANGED << page, isLoading, error, result, calls >>
  /\ PageUnchangedOthers

\* PromptPanel.handleSubmit calls onGenerate unless isLoading; handleGenerate
\* up to its first await
handleGenerate ==
  /\ page # "none"
  /\ ~isLoading
  /\ Len(calls) < MaxCalls
  /\ IF page = "part_003" /\ apiKey = ""
     THEN /\ error' = << "Please enter your Gemini API Key first" >>
          /\ UNCHANGED << isLoading, calls >>
     ELSE /\ isLoading' = TRUE
          /\ error' = << >>
          /\ calls' = Append(calls, [stage |-> "fetch", outcome |-> "pending"])
  /\ UNCHANGED << page, apiKey, result >>
  /\ PageUnchangedOthers

\* a catch block that leaves the finally block out
Thrown_NoFinally(c, message) ==
  /\ error' = << message >>
  /\ calls' = [calls EXCEPT ![c] = [stage |-> "done", outcome |-> "failed"]]
  /\ UNCHANGED << page, apiKey, result, isLoading >>
  /\ PageUnchangedOthers

\* an exception inside the try block of call c: the catch block sets error,
\* the finally block clears isLoading
Thrown(c, message) ==
  /\ error' = << message >>
  /\ isLoading' = FALSE
  /\ calls' = [calls EXCEPT ![c] = [stage |-> "done", outcome |-> "failed"]]
  /\ UNCHANGED << page, apiKey, result >>
  /\ PageUnchangedOthers

\* fetch resolves with response.ok, or with another status
GenFetchOk(c) ==
  /\ calls[c].stage = "fetch"
  /\ calls' = [calls EXCEPT ![c].stage = "json"]
  /\ UNCHANGED << page, apiKey, isLoading, error, result >>
  /\ PageUnchangedOthers

GenFetchNotOk(c) ==
  /\ calls[c].stage = "fetch"
  /\ calls' = [calls EXCEPT ![c].stage = "errorJson"]
  /\ UNCHANGED << page, apiKey, isLoading, error, result >>
  /\ PageUnchangedOthers

\* fetch rejects
GenFetchReject(c) ==
  /\ calls[c].stage = "fetch"
  /\ Thrown(c, "Failed to fetch")

\* response.json() of a response that is not ok resolves: throw new
\* Error(errorData.detail || "Generation failed")
GenErrorData(c, detail) ==
  /\ calls[c].stage = "errorJson"
  /\ Thrown(c, OrElse(detail, "Generation failed"))

\* response.json() rejects
GenJsonReject(c) ==
  /\ calls[c].stage \in {"json", "errorJson"}
  /\ Thrown(c, "Unexpected end of JSON input")

\* response.json() of an ok response resolves
GenData(c, data) ==
  /\ calls[c].stage = "json"
  /\ IF data.success
     THEN /\ result' = << [plyUrl |-> data.ply_url, imageUrl |-> data.image_url] >>
          /\ isLoading' = FALSE
          /\ calls' = [calls EXCEPT ![c] = [stage |-> "done", outcome |-> "ok"]]
          /\ UNCHANGED << page, apiKey, error >>
          /\ PageUnchangedOthers
     ELSE Thrown(c, OrElse(data.message, "Generation failed"))

\* a pending promise of some call settles
GenSettle ==
  \E c \in 1..Len(calls) :
     \/ GenFetchOk(c) \/ GenFetchNotOk(c) \/ GenFetchReject(c) \/ GenJsonReject(c)
     \/ \E detail \in Details : GenErrorData(c, detail)
     \/ \E data \in Bodies : GenData(c, data)

PageNext ==
  \/ \E key \in ApiKeys : handleApiKeyChange(key)
  \/ handleGenerate
  \/ \E c \in 1..Len(calls) : GenFetchOk(c)
  \/ \E c \in 1..Len(calls) : GenFetchNotOk(c)
  \/ \E c \in 1..Len(calls) : GenFetchReject(c)
  \/ \E c \in 1..Len(calls) : GenJsonReject(c)
  \/ \E c \in 1..Len(calls) : \E detail \in Details : GenErrorData(c, detail)
  \/ \E c \in 1..Len(calls) : \E data \in Bodies : GenData(c, data)

\* the page where every pending promise settles in the end
SpecPage == PageInit /\ [][PageNext]_vars /\ WF_vars(GenSettle)

\* ------------------------------------------- what a scene file was built to hold

Returned == pc = "returned"

\* the header's end_header line, with its 0x0A, lies in the scanned prefix
SentinelInPrefix(buf) == buf.src.ending \in {"ok", "cr", "atlimit"}

\* the declared vertex count is a positive integer
PositiveCount(buf) == buf.src.count \in {"1", "2", "3"}
DeclaredCount(buf) ==
  CASE buf.src.count = "1" -> 1 [] buf.src.count = "2" -> 2 [] buf.src.count = "3" -> 3 [] OTHER -> 0

DeclaresXYZ(buf) == {"x", "y", "z"} \subseteq {LayoutProps(buf.src.layout)[c] : c \in 1..Len(LayoutProps(buf.src.layout))}

\* the column (1-based) of a declared property
ColumnOf(buf, name) ==
  CHOOSE c \in 1..Len(LayoutProps(buf.src.layout)) : LayoutProps(buf.src.layout)[c] = name

\* the payload was written in the byte order the header declares
OrderAsDeclared(buf) == buf.src.le = (buf.src.format # "big")

\* the number written in record r under a property name
Written(buf, r, name) == TemplateVal(buf.src.recs[r], ColumnOf(buf, name)).num

\* the records the decoder is to look at: the whole records of the payload, up
\* to the declared count
WholeRecords(buf) == Min2(DeclaredCount(buf), Len(buf.src.recs))

FinitePosition(buf, r) ==
  /\ Written(buf, r, "x").k = "fin"
  /\ Written(buf, r, "y").k = "fin"
  /\ Written(buf, r, "z").k = "fin"

\* the records whose vertex is to be emitted, in record order
RECURSIVE KeptFrom(_, _)
KeptFrom(buf, r) ==
  IF r > WholeRecords(buf) THEN << >>
  ELSE (IF FinitePosition(buf, r) THEN << r >> ELSE << >>) \o KeptFrom(buf, r + 1)
Kept(buf) == KeptFrom(buf, 1)

\* a valid scene file: header with end_header, a positive vertex count, float
\* properties including x, y, z, and at least one record with a finite position
ValidFile(buf) ==
  /\ SentinelInPrefix(buf) /\ PositiveCount(buf) /\ DeclaresXYZ(buf) /\ OrderAsDeclared(buf)
  /\ Kept(buf) # << >>

IsGeometry(r) == "geometry" \in DOMAIN r

InUnit(a) == a.k = "fin" /\ 0 <= a.v /\ a.v <= SCALE

\* ------------------------------------------------------------------ claims

\* C1: for every valid scene file the decoder returns an attribute set whose
\* positions, colors, sizes and opacities describe the same non-zero number of
\* vertices, and every color channel and every opacity lies in [0,1].
C1_AttributesInRange ==
  (Returned /\ ValidFile(buffer)) =>
     /\ IsGeometry(parsed.ret)
     /\ LET g == parsed.ret.geometry
        IN /\ Len(g.size) > 0
           /\ Len(g.position) = 3 * Len(g.size)
           /\ Len(g.color) = 3 * Len(g.size)
           /\ Len(g.opacity) = Len(g.size)
           /\ \A j \in 1..Len(g.color) : InUnit(g.color[j])
           /\ \A j \in 1..Len(g.opacity) : InUnit(g.opacity[j])

\* C2: every record with a non-finite x, y or z is dropped whole and the later
\* records are not shifted: the emitted positions are those of the whole
\* records with a finite position, in record order, one color, size and opacity
\* each, and there are no more of them than the declared vertex count.
C2_NonFiniteDropped ==
  (Returned /\ SentinelInPrefix(buffer) /\ PositiveCount(buffer) /\ DeclaresXYZ(buffer)
     /\ OrderAsDeclared(buffer)) =>
     LET kept == Kept(buffer)
     IN IF kept = << >> THEN parsed.ret = Null
        ELSE /\ IsGeometry(parsed.ret)
             /\ parsed.ret.geometry.position =
                  Flatten([j \in 1..Len(kept) |->
                     << Written(buffer, kept[j], "x"), Written(buffer, kept[j], "y"),
                        Written(buffer, kept[j], "z") >>])
             /\ Len(parsed.ret.geometry.color) = 3 * Len(kept)
             /\ Len(parsed.ret.geometry.size) = Len(kept)
             /\ Len(parsed.ret.geometry.opacity) = Len(kept)
             /\ Len(kept) <= DeclaredCount(buffer)

\* a record with a non-finite position between two kept records was decoded
C2_Witness ==
  /\ Returned /\ SentinelInPrefix(buffer) /\ buffer.src.count = "3" /\ DeclaresXYZ(buffer)
  /\ OrderAsDeclared(buffer)
  /\ Len(buffer.src.recs) >= 2
  /\ ~FinitePosition(buffer, 1) /\ FinitePosition(buffer, 2)
  /\ IsGeometry(parsed.ret)

\* C3: when no end_header line terminated by 0x0A lies in the scanned prefix
\* (the first 10000 bytes), the decoder reports that the header end was not
\* found: it returns null, throws nothing and returns no geometry; this
\* includes the empty buffer and a last line end_header with no 0x0A.
C3_NoHeaderEnd ==
  (Returned /\ ~SentinelInPrefix(buffer)) =>
     /\ parsed.ret = Null
     /\ parsed.console = << "Could not find end_header" >>
     /\ ~parsed.thrown
     /\ parsed.reads = {}

\* an end_header line whose 0x0A is byte 10000 of a file with records was not found
C3_Witness ==
  /\ Returned /\ buffer.src.ending = "pastlimit" /\ BufLen(buffer) > SCAN_LIMIT
  /\ PositiveCount(buffer) /\ DeclaresXYZ(buffer) /\ Len(buffer.src.recs) > 0
  /\ parsed.console = << "Could not find end_header" >>

\* C4: a header that declares element vertex 0, or no float/double property,
\* or any vertex count that is not a positive integer (zero, missing,
\* non-numeric, negative), fails as an empty or invalid header before any
\* payload byte is read.
C4_EmptyOrInvalidHeader ==
  (Returned /\ SentinelInPrefix(buffer)
     /\ (~PositiveCount(buffer) \/ LayoutProps(buffer.src.layout) = << >>)) =>
     /\ parsed.ret = Null
     /\ parsed.console = << "No vertices or properties" >>
     /\ parsed.reads = {}

\* C4, for the counts the code rejects: element vertex 0, no element vertex
\* line, or no float/double property
C4_ZeroCountRejected ==
  (Returned /\ SentinelInPrefix(buffer)
     /\ (buffer.src.count \in {"0", "absent"} \/ LayoutProps(buffer.src.layout) = << >>)) =>
     /\ parsed.ret = Null
     /\ parsed.console = << "No vertices or properties" >>
     /\ parsed.reads = {}

\* the header passed the vertex-count and property check
PassedHeaderCheck(buf) ==
  /\ SentinelInPrefix(buf)
  /\ buf.src.count \notin {"0", "absent"}
  /\ LayoutProps(buf.src.layout) # << >>

\* C5 as stated: whenever x, y or z is not declared in a header (one that has
\* its end_header) the decoder fails with the missing-position failure and
\* reads no record.
C5_MissingPositionAlways ==
  (Returned /\ SentinelInPrefix(buffer) /\ ~DeclaresXYZ(buffer)) =>
     /\ parsed.ret = Null
     /\ parsed.console = << "Missing position properties" >>
     /\ parsed.reads = {}

\* C5: in a header that has its end_header, a non-zero vertex count and a
\* float/double property, a missing x, y or z fails with the missing-position
\* failure and no record is read; with all three declared, each is read from
\* the column given by its place among the declared float/double properties.
C5_PositionColumns ==
  (Returned /\ PassedHeaderCheck(buffer)) =>
     IF ~DeclaresXYZ(buffer)
     THEN /\ parsed.ret = Null
          /\ parsed.console = << "Missing position properties" >>
          /\ parsed.reads = {}
     ELSE (WholeRecords(buffer) > 0) =>
          /\ {4 * (ColumnOf(buffer, n) - 1) : n \in {"x", "y", "z"}} \subseteq parsed.reads
          /\ (OrderAsDeclared(buffer) /\ FinitePosition(buffer, 1)) =>
               /\ IsGeometry(parsed.ret)
               /\ SubSeq(parsed.ret.geometry.position, 1, 3) =
                    << Written(buffer, 1, "x"), Written(buffer, 1, "y"), Written(buffer, 1, "z") >>

\* a header with a vertex count and the float properties x, y only was refused
\* for its missing z, no record read
C5_Witness ==
  /\ Returned /\ PassedHeaderCheck(buffer) /\ PositiveCount(buffer)
  /\ buffer.src.layout = "noz" /\ Len(buffer.src.recs) > 0
  /\ parsed.console = << "Missing position properties" >>
  /\ parsed.reads = {}

\* x, y, z declared in another order than x y z were read from their own columns
C5_ColumnsWitness ==
  /\ Returned /\ PassedHeaderCheck(buffer) /\ buffer.src.layout = "perm"
  /\ WholeRecords(buffer) > 0 /\ FinitePosition(buffer, 1) /\ OrderAsDeclared(buffer)
  /\ IsGeometry(parsed.ret)
  /\ 12 \in parsed.reads

\* the stride of a file's records
Stride(buf) == 4 * Len(LayoutProps(buf.src.layout))

\* C6: when the payload is shorter than vertex_count x bytes_per_vertex the
\* decoder decodes exactly the floor(payload_length / bytes_per_vertex) whole
\* records that fit: every getFloat32 lies inside the payload and inside a
\* whole record, every whole record has its position read, nothing is thrown.
C6_WholeRecordsOnly ==
  (Returned /\ PassedHeaderCheck(buffer) /\ PositiveCount(buffer) /\ DeclaresXYZ(buffer)
     /\ Len(buffer.payload) < DeclaredCount(buffer) * Stride(buffer)) =>
     LET fit == Len(buffer.payload) \div Stride(buffer)
     IN /\ ~parsed.thrown
        /\ \A o \in parsed.reads : o >= 0 /\ o + 4 <= Len(buffer.payload) /\ o + 4 <= fit * Stride(buffer)
        /\ {o \div Stride(buffer) : o \in parsed.reads} = 0..(fit - 1)

\* a payload of one whole record and three bytes of a second, two declared
C6_Witness ==
  /\ Returned /\ PassedHeaderCheck(buffer) /\ DeclaresXYZ(buffer)
  /\ buffer.src.count = "2" /\ Len(buffer.src.recs) = 1 /\ buffer.src.tail = 3
  /\ parsed.reads # {}

\* the value of a color channel for the raw f_dc values of the model's files:
\* clamp(0, 1, 0.5 + 0.28209479177387814 * f)
ExpectedChannel(raw) ==
  CASE raw = Fin(0) -> Fin(500)
    [] raw = Fin(1000) -> Fin(782)
    [] raw = Fin(-8000) -> Fin(0)
    [] raw = Fin(300000) -> Fin(1000)

\* the opacity for the raw values of the model's files: the logistic function
\* clamped to [0.1, 1]
ExpectedOpacity(raw) ==
  CASE raw = Fin(0) -> Fin(500)
    [] raw = Fin(2000) -> Fin(881)
    [] raw = Fin(-8000) -> Fin(100)
    [] raw = Fin(300000) -> Fin(1000)

\* a little-endian file with properties x y z f_dc_0 f_dc_1 f_dc_2 opacity
\* whose declared records are all there and all finite
RoundTripFile(buf) ==
  /\ buf.src.format = "little" /\ buf.src.le /\ buf.src.layout = "sh" /\ buf.src.ending = "ok"
  /\ PositiveCount(buf) /\ DeclaredCount(buf) = Len(buf.src.recs)
  /\ \A r \in 1..Len(buf.src.recs) : buf.src.recs[r] \in {"ramp", "zero", "attrBig", "attrNeg"}

\* C7: decoding such a file of N records yields exactly N vertices in record
\* order, each color channel clamp(0, 1, 0.5 + C0 * f_dc), each opacity the
\* logistic of the raw value clamped to [0.1, 1]; f_dc = 0 gives 0.5 and raw
\* opacity 0 gives 0.5.
C7_RoundTrip ==
  (Returned /\ RoundTripFile(buffer)) =>
     LET n == Len(buffer.src.recs)
     IN /\ IsGeometry(parsed.ret)
        /\ parsed.ret.geometry.position =
             Flatten([r \in 1..n |-> << Written(buffer, r, "x"), Written(buffer, r, "y"),
                                        Written(buffer, r, "z") >>])
        /\ parsed.ret.geometry.color =
             Flatten([r \in 1..n |-> << ExpectedChannel(Written(buffer, r, "f_dc_0")),
                                        ExpectedChannel(Written(buffer, r, "f_dc_1")),
                                        ExpectedChannel(Written(buffer, r, "f_dc_2")) >>])
        /\ parsed.ret.geometry.opacity =
             [r \in 1..n |-> ExpectedOpacity(Written(buffer, r, "opacity"))]
        /\ Len(parsed.ret.geometry.size) = n

\* two different records, the second all zeros, were decoded in order
C7_Witness ==
  /\ Returned /\ RoundTripFile(buffer) /\ buffer.src.recs = << "ramp", "zero" >>
  /\ IsGeometry(parsed.ret)
  /\ parsed.ret.geometry.color[4] = Fin(500)
  /\ parsed.ret.geometry.opacity[2] = Fin(500)

\* C9: once a second load has been started, only the newest load's point set is
\* ever added to the rendered group: whenever a load's points are added, that
\* load is the one started last.
C9_OnlyNewestShown ==
  [][\A l \in 1..Len(loads) :
       (loads[l].stage # "shown" /\ loads'[l].stage = "shown") => l = Len(loads)]_vars

\* a load the decoder failed
DecodeFailed(l) == loads[l].stage \in {"shown", "skipped"} /\ loads[l].decodeLog # << >>

\* C10: every failure of the decoder hands its caller a failure whose kind the
\* caller can tell from the other kinds, and never a partial attribute set:
\* two loads whose decodes failed in different ways got different values.
C10_KindsDistinguishable ==
  \A p, q \in 1..Len(loads) :
     (DecodeFailed(p) /\ DecodeFailed(q)) =>
        /\ ~IsGeometry(loads[p].splatData)
        /\ (loads[p].decodeLog # loads[q].decodeLog => loads[p].splatData # loads[q].splatData)

\* a finite coordinate between two bounds
Within(lo, hi, a) == a.k = "fin" /\ lo <= a.v /\ a.v <= hi

\* C8: from the initial pose, after any frames interleaved with key events,
\* lock changes, look rotations and frame deltas, the camera position is inside
\* the configured cage on every axis, in the ground-locked navigator (x, z
\* bounds and the vertical lock) and in the orbit navigator (x, y, z bounds).
C8_CameraInCage ==
  /\ variant = "ground" =>
       /\ Within(MOVEMENT_BOUNDS.minX, MOVEMENT_BOUNDS.maxX, camera.x)
       /\ Within(MOVEMENT_BOUNDS.minZ, MOVEMENT_BOUNDS.maxZ, camera.z)
       /\ camera.y = Fin(MOVEMENT_BOUNDS.lockedY)
  /\ variant = "orbit" =>
       /\ Within(BOUNDS.minX, BOUNDS.maxX, camera.x)
       /\ Within(BOUNDS.minY, BOUNDS.maxY, camera.y)
       /\ Within(BOUNDS.minZ, BOUNDS.maxZ, camera.z)

\* a frame callback runs in this step
FrameStep == ticks' = ticks + 1

\* C14: every listener registered on mount (keydown, keyup, pointerlockchange)
\* is deregistered when its owning component unmounts, so that after the
\* teardown no key event changes the key state and no pointer-lock event
\* changes the viewer state; and a frame moves the camera only when the
\* keyboard listeners are registered.
C14_ListenersScoped ==
  [][/\ phase' \in {"detached", "unmounted"} => listeners' \cap {"keydown", "keyup"} = {}
     /\ phase' = "unmounted" => listeners' = {}
     /\ phase \in {"detached", "unmounted"} => keys' = keys /\ camera' = camera
     /\ phase = "unmounted" => isPointerLocked' = isPointerLocked /\ showHint' = showHint
     /\ (FrameStep /\ camera' # camera) => {"keydown", "keyup"} \subseteq listeners]_vars

\* SceneViewer was unmounted with a key held and the pointer captured, and the
\* release of the pointer lock that followed changed nothing in the viewer
C14_Witness ==
  /\ phase = "unmounted" /\ listeners = {}
  /\ keys # {} /\ ticks > 0
  /\ ~isLocked /\ isPointerLocked

\* C15: a frame taken while the pointer is not captured leaves the camera
\* position unchanged whatever keys are held.
C15_MovesOnlyWhileLocked ==
  [][(FrameStep /\ ~isLocked) => camera' = camera]_vars

\* C15 for the ground-locked navigator alone
C15_GroundLockGate ==
  [][(FrameStep /\ variant = "ground" /\ ~isLocked) => (camera' = camera /\ writes' = {})]_vars

\* C16: a frame taken while no movement key is held writes nothing to the
\* camera position, neither a clamp nor the axis lock, and leaves the position
\* as it was on every axis.
C16_NoKeysNoWrite ==
  [][(FrameStep /\ keys = {}) => (camera' = camera /\ writes' = {})]_vars

\* C16 for what is left of it in both navigators: with finite deltas such a
\* frame leaves the position as it was
C16_NoKeysNoDrift ==
  [][(FrameStep /\ keys = {}) => camera' = camera]_vars

\* C17: a non-finite camera position is never written back: the camera
\* position is finite on every axis after every frame, whatever the delta.
C17_PositionStaysFinite == VecFinite(camera)

\* the load started last
Newest == Len(loads)

\* the fetch of a load failed: its response was not ok, or fetch rejected
FetchFailed(l) == loads[l].stage = "failed" /\ loads[l].error \in {"http", "network"}

\* C11: when the fetch of the newest load fails, the viewer reaches a state
\* that is neither loading nor ready, an error state, and is not left in the
\* loading state for ever.
C11_FetchFailureSurfaced ==
  FetchFailed(Newest) ~> (ViewerState \notin {"loading", "ready"})

\* C11 for what the load does do: the failure lands in the catch block, which
\* changes neither the group nor the progress
C11_FetchFailureCaught ==
  \A l \in 1..Len(loads) : FetchFailed(l) => l \in caught

\* the decoder returned null to a load
DecodeNull(l) == loads[l].stage = "skipped" /\ loads[l].decodeLog # << >>

\* C12: after the newest load's decode failed, the renderer shows an empty
\* scene for it, and the failure was not thrown out of the load.
C12_FailedDecodeShowsEmpty ==
  (Len(loads) > 0 /\ DecodeNull(Newest)) => (children = << >> /\ Newest \notin caught)

\* C12 for what the load does do: a decode that returned null throws nothing
\* and leaves the group as it was
C12_FailedDecodeAddsNothing ==
  [][\A l \in 1..Len(loads) :
       (~DecodeNull(l) /\ DecodeNull(l)') =>
          (children' = children /\ disposed' = disposed /\ caught' = caught)]_vars

\* a load's point set is in the displayed group
InGroup(l) == mounted /\ \E j \in 1..Len(children) : children[j].load = l

\* C13: every geometry and material that was uploaded is in the displayed
\* group or has been disposed: the previous scene's geometry and material are
\* disposed when the next point set is added, the last scene's on unmount.
C13_ResourcesReleased ==
  \A l \in 1..Len(loads) :
     loads[l].stage = "shown" =>
        InGroup(l) \/ (l \in disposed /\ l \in MaterialsDisposed)

\* C13 for what the load does do: the geometry of a replaced point set is
\* disposed
C13_ReplacedGeometryDisposed ==
  \A l \in 1..Len(loads) :
     (loads[l].stage = "shown" /\ ~(\E j \in 1..Len(children) : children[j].load = l)) =>
        l \in disposed

\* the names of the float/double properties a file declares before its
\* first end_header line, in order
RECURSIVE FloatNames(_)
FloatNames(props) ==
  IF props = << >> THEN << >>
  ELSE (IF Head(props).type \in {"float", "double"} THEN << Head(props).name >> ELSE << >>)
       \o FloatNames(Tail(props))

\* the vertex count a file declares before its first end_header line
CountOf(buf) == IF buf.src.count = "1" THEN Fin(1) ELSE Fin(2)

\* C18: the header scan stops at the first end_header line and the payload
\* begins at the byte behind that line's 0x0A: vertex count, property list and
\* endianness are those declared before it, whatever header lines the bytes
\* behind it spell.
C18_StopsAtSentinel ==
  Returned =>
     /\ parsed.locals.headerEnd = buffer.src.sentinelEnd
     /\ parsed.locals.byteLength = BufLen(buffer) - buffer.src.sentinelEnd
     /\ parsed.locals.vertexCount = CountOf(buffer)
     /\ parsed.locals.properties = FloatNames(buffer.src.props)
     /\ parsed.locals.isLittleEndian = (buffer.src.format = "little")

\* a little-endian file of one declared x y z vertex, with a property line and
\* a second end_header line behind the first, was decoded as what it declares
C18_Witness ==
  /\ Returned /\ buffer.src.kind = "decoy"
  /\ buffer.src.decoys = << << "property", "float", "q" >>, << "end_header" >> >>
  /\ buffer.src.format = "little" /\ buffer.src.count = "1"
  /\ parsed.locals.properties = << "x", "y", "z" >>
  /\ IsGeometry(parsed.ret)
  /\ 0 \in parsed.reads

\* the sum of the widths of the properties a file declares
RECURSIVE DeclaredWidth(_)
DeclaredWidth(props) ==
  IF props = << >> THEN 0 ELSE Width(Head(props).type) + DeclaredWidth(Tail(props))

\* the header was accepted: end_header found, header check and position check passed
Accepted == Returned /\ parsed.locals.headerEnd # 0 /\ (parsed.reads # {} \/ IsGeometry(parsed.ret))

\* C19: for every header the decoder accepts the record stride is four times
\* the number of declared float/double properties, and that is the sum of the
\* widths of the vertex properties the file declares, so that record i starts
\* at payload offset i times the stride.
C19_StrideIsDeclaredWidth ==
  Accepted =>
     /\ parsed.locals.bytesPerVertex = 4 * Len(FloatNames(buffer.src.props))
     /\ parsed.locals.bytesPerVertex = DeclaredWidth(buffer.src.props)

\* C19 for what the decoder does do: the stride is four times the number of
\* float/double properties, and every field is read at a multiple of four
C19_StrideIsFourPerFloat ==
  Accepted =>
     /\ parsed.locals.bytesPerVertex = 4 * Len(FloatNames(buffer.src.props))
     /\ \A o \in parsed.reads : o % 4 = 0

\* clamp(0, 1, raw > 1 ? raw / 255 : raw) for a finite raw value
ExpectedRgb(raw) ==
  LET n == IF raw.v > SCALE THEN raw.v \div 255 ELSE raw.v
  IN Fin(IF n < 0 THEN 0 ELSE IF n > SCALE THEN SCALE ELSE n)

\* a file with red, green, blue columns and no f_dc columns whose declared
\* records are all there, with finite values
RgbFile(buf) ==
  /\ ValidFile(buf) /\ buf.src.layout = "rgb" /\ DeclaredCount(buf) = Len(buf.src.recs)
  /\ \A r \in 1..Len(buf.src.recs) : buf.src.recs[r] \in {"ramp", "zero", "attrBig", "attrNeg"}

\* C20: with red, green, blue columns and no f_dc columns each emitted color
\* channel is the raw value, divided by 255 if it exceeds 1, then clamped to
\* [0,1]: it lies in [0,1] for every raw value, negative ones and ones above
\* 255 too.
C20_RgbClamped ==
  (Returned /\ RgbFile(buffer)) =>
     /\ IsGeometry(parsed.ret)
     /\ parsed.ret.geometry.color =
          Flatten([r \in 1..Len(buffer.src.recs) |->
             << ExpectedRgb(Written(buffer, r, "red")), ExpectedRgb(Written(buffer, r, "green")),
                ExpectedRgb(Written(buffer, r, "blue")) >>])
     /\ \A j \in 1..Len(parsed.ret.geometry.color) : InUnit(parsed.ret.geometry.color[j])

\* C20 for what the decoder does do: the raw value, divided by 255 if it
\* exceeds 1, not clamped
C20_RgbNormalized ==
  (Returned /\ RgbFile(buffer)) =>
     /\ IsGeometry(parsed.ret)
     /\ parsed.ret.geometry.color =
          Flatten([r \in 1..Len(buffer.src.recs) |->
             << RgbChannel(Written(buffer, r, "red")), RgbChannel(Written(buffer, r, "green")),
                RgbChannel(Written(buffer, r, "blue")) >>])

\* C21: every size the decoder emits is a positive real: with scale_0/1/2
\* columns it is clamp(0.001, 0.1, mean of the exponentials x 0.02), in
\* [0.001, 0.1] for every raw scale value; without them it is the default 0.01.
C21_SizePositive ==
  (Returned /\ ValidFile(buffer)) =>
     /\ IsGeometry(parsed.ret)
     /\ \A j \in 1..Len(parsed.ret.geometry.size) : Within(1, 100, parsed.ret.geometry.size[j])
     /\ buffer.src.layout # "scale" =>
          \A j \in 1..Len(parsed.ret.geometry.size) : parsed.ret.geometry.size[j] = Fin(10)

\* C21 for what the decoder does do: the size is in [0.001, 0.1] when no raw
\* scale value of a kept record is NaN, and 0.01 without scale columns
C21_SizeOfNumbers ==
  (Returned /\ ValidFile(buffer)) =>
     /\ IsGeometry(parsed.ret)
     /\ Len(parsed.ret.geometry.size) = Len(Kept(buffer))
     /\ \A j \in 1..Len(Kept(buffer)) :
          IF buffer.src.layout # "scale" THEN parsed.ret.geometry.size[j] = Fin(10)
          ELSE IF \E n \in {"scale_0", "scale_1", "scale_2"} : Written(buffer, Kept(buffer)[j], n) = NaN
          THEN parsed.ret.geometry.size[j] = NaN
          ELSE Within(1, 100, parsed.ret.geometry.size[j])

\* C22: every float field is read little-endian unless the header has a
\* format binary_big_endian line, and then every field is read big-endian; a
\* header with no format line or with a non-binary format line is decoded as
\* little-endian binary.
C22_EndiannessFromHeader ==
  (Returned /\ SentinelInPrefix(buffer)) =>
     /\ parsed.locals.isLittleEndian = (buffer.src.format # "big")
     /\ ValidFile(buffer) =>
          /\ IsGeometry(parsed.ret)
          /\ parsed.ret.geometry.position =
               Flatten([j \in 1..Len(Kept(buffer)) |->
                  << Written(buffer, Kept(buffer)[j], "x"), Written(buffer, Kept(buffer)[j], "y"),
                     Written(buffer, Kept(buffer)[j], "z") >>])

\* a big-endian file, and a file with an ascii format line, were decoded to
\* the numbers written in them
C22_Witness ==
  /\ Returned /\ ValidFile(buffer) /\ IsGeometry(parsed.ret)
  /\ buffer.src.recs = << "ramp" >>
  /\ parsed.ret.geometry.position = << Fin(500), Fin(-1000), Fin(2000) >>
  /\ \/ buffer.src.format = "big" /\ ~parsed.locals.isLittleEndian
     \/ buffer.src.format = "ascii" /\ parsed.locals.isLittleEndian

\* the positions decoded for the point set c
PositionsOf(c) == loads[c.load].splatData.geometry.position

\* C23: the framing step translates the point set so that, with the rotation
\* by 180 degrees about x and the uniform scale applied to the same object, the
\* centre of the rendered bounding volume is at the world origin, for every
\* box centre.
C23_CentredInWorld ==
  \A j \in 1..Len(children) :
     BoxFinite(PositionsOf(children[j])) =>
        WorldOf(children[j], BoxCenter(PositionsOf(children[j]))) = << 0, 0, 0 >>

\* C23 for what the framing step does do: the object's position is minus the
\* box centre, whatever its rotation and scale
C23_PositionIsMinusCentre ==
  \A j \in 1..Len(children) :
     children[j].position = [a \in 1..3 |-> 0 - BoxCenter(PositionsOf(children[j]))[a]]

\* C24: the framing step never scales up: the scale is 1 when the largest
\* extent of the box is at most 5 and 5 / extent, less than 1, when it is
\* larger; with a box that is not finite centring and scaling are skipped;
\* the point set of a load that got this far is in the group either way.
C24_NeverScalesUp ==
  /\ \A j \in 1..Len(children) :
        LET maxDim == BoxMaxDim(PositionsOf(children[j]))
        IN IF ~BoxFinite(PositionsOf(children[j]))
           THEN children[j].scale = SCALE /\ children[j].position = [a \in 1..3 |-> 0]
           ELSE IF maxDim <= MAX_DIM THEN children[j].scale = SCALE
           ELSE children[j].scale = (MAX_DIM * SCALE) \div maxDim /\ children[j].scale < SCALE
  /\ (\E l \in 1..Len(loads) : loads[l].stage = "shown") => children # << >>

\* a scene 10 units wide is shown at half size, and a scene 2 units deep was
\* shown at full size
C24_Witness ==
  /\ children # << >>
  /\ BoxMaxDim(PositionsOf(children[1])) = 10000
  /\ children[1].scale = 500
  /\ \E l \in 1..Len(loads) :
        /\ loads[l].stage = "shown" /\ l # children[1].load
        /\ BoxMaxDim(loads[l].splatData.geometry.position) = 2000

\* C25: in the ground-locked navigator every frame taken while locked leaves
\* the camera's vertical coordinate at the configured lockedY, 0, whatever
\* keys are held and wherever the camera looks; the keys change x and z only.
C25_VerticalLocked ==
  [][(FrameStep /\ variant = "ground" /\ isLocked)
       => (camera'.y = Fin(0) /\ camera'.y = camera.y /\ "y" \in writes')]_vars

\* a locked frame with a key held and the camera turned moved the camera
\* sideways and left it at height 0
C25_Witness ==
  /\ variant = "ground" /\ isLocked /\ ticks > 0 /\ writes = {"x", "y", "z"}
  /\ "forward" \in keys /\ yaw = 1
  /\ camera.x # Fin(0)
  /\ camera.y = Fin(0)

\* the movement flags and the two keys each is bound to
Flags == {"forward", "backward", "left", "right"}
KeysOf(flag) == {code \in Codes : FlagOf(code) = {flag}}

\* C26: after any sequence of keydown and keyup events a movement flag is true
\* exactly when at least one of its two keys is held; releasing one of the two
\* while the other is held leaves the flag true.
C26_FlagIffKeyHeld ==
  phase = "mounted" => \A flag \in Flags : (flag \in keys) <=> (KeysOf(flag) \cap held # {})

\* C26 for what the handlers do do: a flag that is true has one of its keys
\* held, and a flag none of whose keys is held is false
C26_FlagImpliesKeyHeld ==
  phase = "mounted" => \A flag \in Flags : (flag \in keys) => (KeysOf(flag) \cap held # {})

\* the vector from the orbit target to the camera, in thousandths
Offset(c, t) == << c.x.v - t.x.v, c.y.v - t.y.v, c.z.v - t.z.v >>

\* C29: in the orbit navigator every keyboard movement frame moves the orbit
\* target by the camera's displacement after clamping, so the vector between
\* camera and target is the same before and after the frame, also when the
\* clamp cuts the movement short.
C29_TargetFollowsCamera ==
  [][(FrameStep /\ variant = "orbit")
       => (VecFinite(camera') /\ VecFinite(target') /\ Offset(camera', target') = Offset(camera, target))]_vars

\* a frame with the up key held was cut short at the top of the cage and the
\* target rose by the same 3 units
C29_Witness ==
  /\ variant = "orbit" /\ writes = {"x", "y", "z"} /\ "e" \in keys
  /\ camera.y = Fin(BOUNDS.maxY)
  /\ target.y = Fin(3000)
  /\ camera.x = Fin(0)

\* load l ends in this step without a scene: its fetch or body failed, the
\* decoder threw, or the decoder returned null
EndsFailed(l) ==
  /\ loads[l].stage \in {"fetch", "body"}
  /\ \/ loads'[l].stage = "failed"
     \/ loads'[l].stage = "skipped" /\ loads'[l].splatData = Null

\* C27: a scene load that fails (fetch rejects, status not ok, decoder returns
\* null) leaves the rendered group as it was: no child is removed, disposed or
\* added, and the point set of the last successful load stays displayed.
C27_FailedLoadKeepsGroup ==
  [][(\E l \in 1..Len(loads) : Len(loads') = Len(loads) /\ EndsFailed(l))
       => (children' = children /\ disposed' = disposed)]_vars

\* a load failed on its status and another on a null from the decoder while
\* the points of an earlier load are displayed
C27_Witness ==
  /\ children # << >>
  /\ \E l \in 1..Len(loads) : l > children[1].load /\ loads[l].error = "http"
  /\ \E l \in 1..Len(loads) :
        l > children[1].load /\ loads[l].stage = "skipped" /\ loads[l].splatData = Null
           /\ loads[l].decodeLog # << >>

\* C28: after any sequence of loads completing in any order the group holds at
\* most one point set: a successful load removes every child and adds its own
\* Points in one step.
C28_AtMostOnePointSet ==
  /\ Len(children) <= 1
  /\ \A j \in 1..Len(children) : loads[children[j].load].stage = "shown"

\* the points of a second load replaced those of the first, whose geometry
\* was disposed
C28_Witness ==
  /\ Len(children) = 1 /\ children[1].load = 2
  /\ loads[1].stage = "shown" /\ 1 \in disposed

\* call c of handleGenerate ends in this step, and ends as a failure
CallEnds(c) == c <= Len(calls) /\ calls[c].stage # "done" /\ calls'[c].stage = "done"
CallFails(c) == CallEnds(c) /\ calls'[c].outcome = "failed"

\* C30: every call of handleGenerate that sets isLoading to true sets it back
\* to false in the end, whether the request succeeds, comes back with another
\* status or with success false, or fetch or JSON parsing throws; a failing
\* call sets error to a message and leaves the stored result as it was.
C30_LoadingAlwaysCleared ==
  /\ \A c \in 1..MaxCalls : (Len(calls) >= c) ~> (Len(calls) >= c /\ calls[c].stage = "done" /\ ~isLoading)
  /\ [][\A c \in 1..MaxCalls :
          /\ (Len(calls') >= c /\ Len(calls) < c) => isLoading'
          /\ CallEnds(c) => (isLoading /\ ~isLoading')
          /\ CallFails(c) => (error' # << >> /\ result' = result)]_vars

\* a call failed after an earlier one had stored a result: the result is
\* still there, the error is set, isLoading is false
C30_Witness ==
  /\ Len(calls) = 2 /\ calls[1].outcome = "ok" /\ calls[2].outcome = "failed"
  /\ result # << >> /\ result[1].plyUrl = "/a.ply"
  /\ error = << "Generation failed" >>
  /\ ~isLoading

====
